---- MODULE Spec2Model ----
(***************************************************************************)
(* Conversion delivery queue of the Market!N Wix integration.              *)
(*                                                                         *)
(* The model follows the conversion queue service (enqueueConversion,      *)
(* processQueue, isRetryableError, logFailure, retryDeadJob) statement by  *)
(* statement.  Every database statement is one atomic step and every       *)
(* `await` is a point where other callers may run, so the inline trigger   *)
(* of the order webhook, the worker poll loop, concurrent webhooks and a   *)
(* manual retryDeadJob interleave exactly where the JavaScript does.       *)
(***************************************************************************)
EXTENDS Integers, Sequences, FiniteSets, TLC

(***************************************************************************)
(* Program constants                                                       *)
(***************************************************************************)
\* Retry delays in seconds: 30s, 2m, 8m, 32m, 2h
BACKOFF_DELAYS == <<30, 120, 480, 1920, 7200>>

MAX_ATTEMPTS == 5

\* batch size passed by the inline trigger of handleWixOrderWebhook
INLINE_BATCH == 5

(***************************************************************************)
(* Bounds of the model                                                     *)
(***************************************************************************)
\* QUEUE_BATCH_SIZE the worker is started with
WorkerBatch == 1

\* processQueue calls made, by the inline trigger and the poll loop together
MaxRuns == 2

\* processQueue calls made in the single-consumer specification
MaxRunsSingle == 5

\* retryDeadJob calls made by the operator
MaxRetryCalls == 1

\* processQueue calls made in the specification with two admin requests
MaxRunsRetry == 2

\* retryDeadJob calls made in the specification with two admin requests
MaxRetryCallsRetry == 2

\* clock horizon (seconds) of the specification of the poll loop: two lives
\* of a job, each of four backoff delays with every attempt late
MaxTimeLive == 5400

\* processQueue calls made in the specification with every kind of error
MaxRunsErrors == 2

\* clock horizon (seconds) of the specification with every kind of error
MaxTimeErrors == 60

\* clock horizon (seconds) of the concurrent specification
MaxTime == 30

\* clock horizon (seconds) of the single-consumer specification
MaxTimeSingle == 2560

(***************************************************************************)
(* Values                                                                  *)
(***************************************************************************)
\* SQL NULL / JavaScript null in a text column
Null == "null"

\* SQL NULL in a timestamp column
NoTime == -1

\* an error that carries no HTTP response (network failure, timeout, DNS)
NoStatus == 0

\* JavaScript undefined, as `${...}` renders it
Undefined == "undefined"

\* a thrown exception, as the outcome of a call
Thrown == "thrown"

\* the order webhooks received, named in order of arrival; each calls
\* enqueueConversion once
Enqueuers == {"hookA", "hookB"}

\* the webhooks that arrive before e
Earlier(e) == IF e = "hookB" THEN {"hookA"} ELSE {}

Consumers == {"inline", "worker"}

\* the admin requests that call retryDeadJob; the second is one made while
\* the first is still in progress
Operators == {"admin", "admin2"}

\* the admin requests that start before r
EarlierOperators(r) == IF r = "admin2" THEN {"admin"} ELSE {}

BrandIds == {"123"}

ExternalOrderIds == {"order-001", Null}

\* conversion payloads handed to enqueueConversion
Payloads == [brandId : BrandIds, externalOrderId : ExternalOrderIds]

\* the order of the queue's test suite
TestOrder == [brandId |-> "123", externalOrderId |-> "order-001"]

\* errors thrown by sendConversionDirect: HTTP status, err.code, err.message
Errors ==
    { [status |-> 400, code |-> Null, message |-> "Bad request"],
      [status |-> 503, code |-> Null, message |-> "Service unavailable"] }

\* how late, in seconds, a poll may find a job that fell due
Lateness == 30

\* the HTTP statuses an error thrown by sendConversionDirect may carry: 2xx
\* (a body with status 'error'), 3xx, 4xx and 5xx
HttpStatuses == {200, 302, 400, 401, 404, 408, 422, 429, 499, 500, 502, 503, 599}

\* every kind of error sendConversionDirect throws: an HTTP answer, or no
\* answer at all (with or without an error code of the transport)
AllErrors ==
    { [status |-> s, code |-> Null, message |-> "Request failed"] : s \in HttpStatuses }
    \cup { [status |-> NoStatus, code |-> "ECONNABORTED", message |-> "timeout exceeded"],
           [status |-> NoStatus, code |-> Null, message |-> "socket hang up"] }

VARIABLES
    now,                  \* wall clock, seconds
    conversion_queue,     \* the job table: sequence of rows, id = index
    conversion_failures,  \* the failure table: sequence of rows
    alerts,               \* the alert mails sent by sendConversionFailureAlert
    uuids,                \* number of crypto.randomUUID() values drawn
    epc, eloc, enqReturns,    \* enqueueConversion callers: position, locals, outcome
    ppc, ploc,                \* processQueue callers: position, locals (with
                              \* the history of the jobs the call handled)
    rpc, rloc, retryReturns,  \* retryDeadJob callers
    sent,                 \* per row: outcomes of the deliveries made since
                          \* creation or the last retryDeadJob (history)
    requeues,             \* per row: retryDeadJob resets applied (history)
    retryCalls,           \* retryDeadJob calls made so far
    runs                  \* processQueue calls made so far

VARIABLES
    client,               \* the database client knex is configured with
    visitor_sessions,     \* the session table: sequence of rows, id = index
    order_webhooks,       \* the raw order webhooks stored: sequence of rows
    tracked,              \* session tracking and identify calls made so far
    resolved,             \* the outcome of a resolveAffiliate call
    body, parsed,         \* parseWixOrderPayload: its argument and its result
    hpc, hloc, responses, \* handleWixOrderWebhook requests: position, locals,
                          \* the HTTP response sent
    stats                 \* what the latest getQueueStats call returned

\* the state of order attribution and of the webhook endpoint
attributionVars == <<client, visitor_sessions, order_webhooks, tracked, resolved,
                     body, parsed, hpc, hloc, responses, stats>>

vars == <<now, conversion_queue, conversion_failures, alerts, uuids,
          epc, eloc, enqReturns, ppc, ploc,
          rpc, rloc, retryReturns, sent, requeues, retryCalls, runs,
          client, visitor_sessions, order_webhooks, tracked, resolved,
          body, parsed, hpc, hloc, responses, stats>>

(***************************************************************************)
(* Helpers                                                                 *)
(***************************************************************************)
\* JavaScript truthiness of a string-or-null value
Truthy(x) == x # Null /\ x # Undefined /\ x # ""

\* the rows of a table, by id
RowIds(tbl) == 1 .. Len(tbl)

\* knex(...).where('id', id).update(changes)
UpdateRow(tbl, id, changes) == [tbl EXCEPT ![id] = changes @@ @]

\* knex(...).where('job_id', jobId).first(): the id of the row, 0 when none
FindByJobId(tbl, jobId) ==
    IF \E i \in RowIds(tbl) : tbl[i].job_id = jobId
    THEN CHOOSE i \in RowIds(tbl) : tbl[i].job_id = jobId
    ELSE 0

\* crypto.randomUUID(): the n-th value drawn
RandomUUID(n) == "uuid" \o ToString(n)

\* JSON.stringify(conversionPayload): keys whose value is undefined are dropped
JSONStringify(payload) ==
    [k \in {f \in DOMAIN payload : payload[f] # Undefined} |-> payload[k]]

(***************************************************************************)
(* enqueueConversion                                                       *)
(***************************************************************************)
\* faulty variant: every call draws a random job id
JobIdOf_AlwaysRandom(payload, uuid) == "conv_" \o uuid

\* the idempotency key of a payload; uuid is the next random value
JobIdOf(payload, uuid) ==
    IF Truthy(payload.externalOrderId)
    THEN "conv_" \o payload.brandId \o "_" \o payload.externalOrderId
    ELSE "conv_" \o uuid

\* faulty variant: a dead job is reported as still queued
ExistingMessage_CompletedOnly(status) ==
    IF status = "completed" THEN "Already processed" ELSE "Already queued"

\* the message returned for a job that already exists
ExistingMessage(status) ==
    IF status \in {"completed", "dead"} THEN "Already processed" ELSE "Already queued"

\* faulty variant: the job_id column has no unique index
UniqueViolation_NoIndex(tbl, jobId) == FALSE

\* the unique index on conversion_queue.job_id rejects the insert
UniqueViolation(tbl, jobId) == \E i \in RowIds(tbl) : tbl[i].job_id = jobId

\* the row enqueueConversion inserts
NewJob(id, jobId, payload, t) ==
    [ id                |-> id,
      job_id            |-> jobId,
      status            |-> "pending",
      attempts          |-> 0,
      max_attempts      |-> MAX_ATTEMPTS,
      next_retry_at     |-> t,
      last_attempted_at |-> NoTime,
      payload           |-> JSONStringify(payload),
      last_error        |-> Null,
      error_code        |-> Null,
      created_at        |-> t,
      completed_at      |-> NoTime ]

\* the locals of a call that is not running
NoCall == [payload |-> Null, jobId |-> Null]

\* the outcome of a call that has not returned
NoReturn == [jobId |-> Null, status |-> Null, message |-> Null]

\* enqueueConversion, up to its first await: compute the job id and look the
\* job up; an existing job is returned as it is
EnqueueCall(e, payload) ==
    /\ epc[e] = "idle"
    /\ LET uuid  == RandomUUID(uuids + 1)
           jobId == JobIdOf(payload, uuid)
           found == FindByJobId(conversion_queue, jobId)
       IN  /\ uuids' = IF jobId = "conv_" \o uuid THEN uuids + 1 ELSE uuids
           /\ IF found # 0
              THEN /\ enqReturns' = [enqReturns EXCEPT ![e] =
                          [ jobId   |-> jobId,
                            status  |-> conversion_queue[found].status,
                            message |-> ExistingMessage(conversion_queue[found].status) ]]
                   /\ epc' = [epc EXCEPT ![e] = "done"]
                   /\ eloc' = [eloc EXCEPT ![e] = [payload |-> payload, jobId |-> jobId]]
              ELSE /\ epc' = [epc EXCEPT ![e] = "insert"]
                   /\ eloc' = [eloc EXCEPT ![e] = [payload |-> payload, jobId |-> jobId]]
                   /\ UNCHANGED enqReturns
    /\ UNCHANGED <<now, conversion_queue, conversion_failures, alerts,
                   ppc, ploc, rpc, rloc, retryReturns, sent, requeues, retryCalls, runs>>
    /\ UNCHANGED attributionVars

\* enqueueConversion called by the webhook e, the webhooks taken in their
\* order of arrival
EnqueueCheck(e, payload) ==
    /\ \A d \in Earlier(e) : epc[d] # "idle"
    /\ EnqueueCall(e, payload)

\* enqueueConversion, the insert: the unique index makes it throw when another
\* caller inserted the same job id since the check
EnqueueInsert(e) ==
    /\ epc[e] = "insert"
    /\ epc' = [epc EXCEPT ![e] = "done"]
    /\ LET jobId == eloc[e].jobId
           id    == Len(conversion_queue) + 1
       IN  IF UniqueViolation(conversion_queue, jobId)
           THEN /\ enqReturns' = [enqReturns EXCEPT ![e] =
                       [ jobId   |-> jobId,
                         status  |-> Thrown, message |-> "SQLITE_CONSTRAINT" ]]
                /\ UNCHANGED <<conversion_queue, sent, requeues, retryCalls, runs>>
           ELSE /\ conversion_queue' =
                       Append(conversion_queue, NewJob(id, jobId, eloc[e].payload, now))
                /\ sent' = Append(sent, <<>>)
                /\ requeues' = Append(requeues, 0)
                /\ enqReturns' = [enqReturns EXCEPT ![e] =
                       [ jobId   |-> jobId,
                         status  |-> "pending", message |-> "Queued" ]]
    /\ UNCHANGED <<now, conversion_failures, alerts, uuids, eloc,
                   ppc, ploc, rpc, rloc, retryReturns, retryCalls, runs>>
    /\ UNCHANGED attributionVars

(***************************************************************************)
(* processQueue                                                            *)
(***************************************************************************)
\* faulty variant: the selection leaves failed jobs out
Eligible_PendingOnly(row, t) ==
    /\ row.status = "pending"
    /\ row.next_retry_at <= t
    /\ row.attempts < MAX_ATTEMPTS

\* faulty variant: the selection does not look at next_retry_at
Eligible_IgnoresRetryTime(row, t) ==
    /\ row.status \in {"pending", "failed"}
    /\ row.attempts < MAX_ATTEMPTS

\* the WHERE clause of the selection
Eligible(row, t) ==
    /\ row.status \in {"pending", "failed"}
    /\ row.next_retry_at <= t
    /\ row.attempts < MAX_ATTEMPTS

\* faulty variant: the selection takes the jobs that fell due last
Batches_NewestFirst(tbl, t, batchSize) ==
    LET ids == {i \in RowIds(tbl) : Eligible(tbl[i], t)}
        n   == IF Cardinality(ids) < batchSize THEN Cardinality(ids) ELSE batchSize
    IN  { b \in [1 .. n -> ids] :
            /\ \A i, j \in 1 .. n : i < j =>
                   /\ b[i] # b[j]
                   /\ tbl[b[i]].next_retry_at >= tbl[b[j]].next_retry_at
            /\ \A i \in 1 .. n : \A k \in ids :
                   (\A j \in 1 .. n : b[j] # k) =>
                       tbl[b[i]].next_retry_at >= tbl[k].next_retry_at }

\* faulty variant: the selection has no limit
Batches_NoLimit(tbl, t, batchSize) ==
    LET ids == {i \in RowIds(tbl) : Eligible(tbl[i], t)}
        n   == Cardinality(ids)
    IN  { b \in [1 .. n -> ids] :
            \A i, j \in 1 .. n : i < j =>
                /\ b[i] # b[j]
                /\ tbl[b[i]].next_retry_at <= tbl[b[j]].next_retry_at }

\* the batches the selection may return: up to batchSize eligible rows in
\* ascending next_retry_at; the order of rows with equal next_retry_at is
\* whatever the database returns
Batches(tbl, t, batchSize) ==
    LET ids == {i \in RowIds(tbl) : Eligible(tbl[i], t)}
        n   == IF Cardinality(ids) < batchSize THEN Cardinality(ids) ELSE batchSize
    IN  { b \in [1 .. n -> ids] :
            /\ \A i, j \in 1 .. n : i < j =>
                   /\ b[i] # b[j]
                   /\ tbl[b[i]].next_retry_at <= tbl[b[j]].next_retry_at
            /\ \A i \in 1 .. n : \A k \in ids :
                   (\A j \in 1 .. n : b[j] # k) =>
                       tbl[b[i]].next_retry_at <= tbl[k].next_retry_at }

\* a fetched row, as processQueue holds it while the table moves on: the
\* columns it reads later (job.id, job.job_id, job.attempts, job.payload)
Fetched(row) ==
    [ id |-> row.id, job_id |-> row.job_id,
      attempts |-> row.attempts, payload |-> row.payload ]

\* the batch size a caller passes
BatchSize(p) == IF p = "inline" THEN INLINE_BATCH ELSE WorkerBatch

\* no job in hand
NoJob == [id |-> 0]

NoResults == [processed |-> 0, succeeded |-> 0, failed |-> 0, dead |-> 0]

NoError == [status |-> NoStatus, code |-> Null, message |-> Null]

\* the locals of a processQueue call that is not running
NoLocals ==
    [ now |-> 0, jobs |-> <<>>, job |-> NoJob, results |-> NoResults,
      err |-> NoError, handled |-> <<>> ]

\* history of a call: a job it handled, the status its row had when the call
\* wrote the outcome, the status written, and the HTTP status of the answer
Moved(job, from, to, http) == [id |-> job.id, from |-> from, to |-> to, http |-> http]

\* faulty variant: every 4xx is fatal, 429 and 408 included
isRetryableError_Every4xxFatal(err) ==
    LET status == err.status
    IN  IF status = NoStatus THEN TRUE
        ELSE IF status >= 500 THEN TRUE
        ELSE IF status >= 400 /\ status < 500 THEN FALSE
        ELSE TRUE

\* isRetryableError(err)
isRetryableError(err) ==
    LET status == err.status
    IN  IF status = NoStatus THEN TRUE
        ELSE IF status >= 500 THEN TRUE
        ELSE IF status = 429 THEN TRUE
        ELSE IF status = 408 THEN TRUE
        ELSE IF status >= 400 /\ status < 500 THEN FALSE
        ELSE TRUE

\* err?.response?.data?.message || err?.message || String(err)
ErrorMessage(err) == IF Truthy(err.message) THEN err.message ELSE "Error"

\* err?.code || (httpStatus ? `HTTP_${httpStatus}` : 'UNKNOWN')
ErrorCode(err) ==
    IF Truthy(err.code) THEN err.code
    ELSE IF err.status # NoStatus THEN "HTTP_" \o ToString(err.status)
    ELSE "UNKNOWN"

\* faulty variant: the class of the error is not looked at
ShouldRetry_AnyError(err, attempts) == attempts < MAX_ATTEMPTS

\* faulty variant: one attempt too many
ShouldRetry_OffByOne(err, attempts) == isRetryableError(err) /\ attempts <= MAX_ATTEMPTS

\* const shouldRetry = isRetryable && attempts < MAX_ATTEMPTS
ShouldRetry(err, attempts) == isRetryableError(err) /\ attempts < MAX_ATTEMPTS

Min(a, b) == IF a < b THEN a ELSE b

\* faulty variant: every retry waits the last delay
BackoffDelay_LastEntry(attempts) == BACKOFF_DELAYS[Len(BACKOFF_DELAYS)]

\* faulty variant: every retry waits the first delay
BackoffDelay_FirstEntry(attempts) == BACKOFF_DELAYS[1]

\* faulty variant: the delay of the next attempt is used
BackoffDelay_NextEntry(attempts) == BACKOFF_DELAYS[Min(attempts, Len(BACKOFF_DELAYS) - 1) + 1]

\* BACKOFF_DELAYS[Math.min(attempts - 1, BACKOFF_DELAYS.length - 1)]
BackoffDelay(attempts) == BACKOFF_DELAYS[Min(attempts - 1, Len(BACKOFF_DELAYS) - 1) + 1]

\* faulty variant: the successful attempt is not counted
CompletedUpdate_NotCounted(job, t) ==
    [ status       |-> "completed",
      attempts     |-> job.attempts,
      completed_at |-> t ]

\* the columns written when the delivery succeeded at time t
CompletedUpdate(job, t) ==
    [ status       |-> "completed",
      attempts     |-> job.attempts + 1,
      completed_at |-> t ]

\* the columns written when the delivery failed at time t and is retried
FailedUpdate(job, err, t) ==
    [ status        |-> "failed",
      attempts      |-> job.attempts + 1,
      next_retry_at |-> t + BackoffDelay(job.attempts + 1),
      last_error    |-> ErrorMessage(err),
      error_code    |-> ErrorCode(err) ]

\* faulty variant: a fatal error is recorded but the status is left as it is
DeadUpdate_StatusKept(job, err) ==
    [ attempts   |-> job.attempts + 1,
      last_error |-> ErrorMessage(err),
      error_code |-> ErrorCode(err) ]

\* the columns written when the delivery failed for good
DeadUpdate(job, err) ==
    [ status     |-> "dead",
      attempts   |-> job.attempts + 1,
      last_error |-> ErrorMessage(err),
      error_code |-> ErrorCode(err) ]

\* the row logFailure inserts
FailureRow(job, err) ==
    [ queue_id      |-> job.id,
      job_id        |-> job.job_id,
      payload       |-> job.payload,
      error_message |-> ErrorMessage(err),
      error_code    |-> ErrorCode(err),
      http_status   |-> err.status,
      alert_sent    |-> FALSE,
      created_at    |-> now ]

\* processQueue, the selection: read the clock and fetch the batch
ProcessSelect(p) ==
    /\ ppc[p] = "idle"
    /\ \E b \in Batches(conversion_queue, now, BatchSize(p)) :
          ploc' = [ploc EXCEPT ![p] =
                     [ now     |-> now,
                       jobs    |-> [i \in DOMAIN b |-> Fetched(conversion_queue[b[i]])],
                       job     |-> NoJob,
                       results |-> NoResults,
                       err     |-> NoError,
                       handled |-> <<>> ]]
    /\ ppc' = [ppc EXCEPT ![p] = "loop"]
    /\ UNCHANGED <<now, conversion_queue, conversion_failures, alerts, uuids,
                   epc, eloc, enqReturns, rpc, rloc, retryReturns,
                   sent, requeues, retryCalls>>
    /\ UNCHANGED attributionVars

\* one more processQueue call is made, of the maxRuns the model follows
CountRun(maxRuns) == runs < maxRuns /\ runs' = runs + 1

\* processQueue, the head of the loop: take the next job of the batch and
\* mark its row processing
ProcessMark(p) ==
    /\ ppc[p] = "loop"
    /\ ploc[p].jobs # <<>>
    /\ LET job == Head(ploc[p].jobs)
       IN  /\ conversion_queue' = UpdateRow(conversion_queue, job.id,
                   [status |-> "processing", last_attempted_at |-> ploc[p].now])
           /\ ploc' = [ploc EXCEPT ![p].jobs = Tail(@),
                                   ![p].job = job,
                                   ![p].results.processed = @ + 1]
    /\ ppc' = [ppc EXCEPT ![p] = "sending"]
    /\ UNCHANGED <<now, conversion_failures, alerts, uuids,
                   epc, eloc, enqReturns, rpc, rloc, retryReturns,
                   sent, requeues, retryCalls, runs>>
    /\ UNCHANGED attributionVars

\* processQueue, the end of the loop: return the counts
ProcessReturn(p) ==
    /\ ppc[p] = "loop"
    /\ ploc[p].jobs = <<>>
    /\ ploc' = [ploc EXCEPT ![p] = NoLocals]
    /\ ppc' = [ppc EXCEPT ![p] = "idle"]
    /\ UNCHANGED <<now, conversion_queue, conversion_failures, alerts, uuids,
                   epc, eloc, enqReturns, rpc, rloc, retryReturns,
                   sent, requeues, retryCalls, runs>>
    /\ UNCHANGED attributionVars

\* sendConversionDirect resolved: the job is completed
ProcessSuccess(p) ==
    /\ ppc[p] = "sending"
    /\ LET job == ploc[p].job
       IN  /\ conversion_queue' =
                   UpdateRow(conversion_queue, job.id, CompletedUpdate(job, now))
           /\ sent' = [sent EXCEPT ![job.id] = Append(@, "ok")]
           /\ ploc' = [ploc EXCEPT ![p].results.succeeded = @ + 1, ![p].job = NoJob,
                            ![p].handled = Append(@,
                                Moved(job, conversion_queue[job.id].status, "completed", 200))]
    /\ ppc' = [ppc EXCEPT ![p] = "loop"]
    /\ UNCHANGED <<now, conversion_failures, alerts, uuids,
                   epc, eloc, enqReturns, rpc, rloc, retryReturns,
                   requeues, retryCalls, runs>>
    /\ UNCHANGED attributionVars

\* sendConversionDirect threw: the job is rescheduled or dead-lettered
ProcessFailure(p, err) ==
    /\ ppc[p] = "sending"
    /\ LET job      == ploc[p].job
           attempts == job.attempts + 1
       IN  /\ sent' = [sent EXCEPT ![job.id] = Append(@, ErrorCode(err))]
           /\ IF ShouldRetry(err, attempts)
              THEN /\ conversion_queue' =
                          UpdateRow(conversion_queue, job.id, FailedUpdate(job, err, now))
                   /\ ploc' = [ploc EXCEPT ![p].results.failed = @ + 1,
                                           ![p].job = NoJob,
                                           ![p].handled = Append(@,
                               Moved(job, conversion_queue[job.id].status, "failed", err.status))]
                   /\ ppc' = [ppc EXCEPT ![p] = "loop"]
              ELSE /\ conversion_queue' =
                          UpdateRow(conversion_queue, job.id, DeadUpdate(job, err))
                   /\ ploc' = [ploc EXCEPT ![p].err = err,
                                           ![p].handled = Append(@,
                               Moved(job, conversion_queue[job.id].status, "dead", err.status))]
                   /\ ppc' = [ppc EXCEPT ![p] = "logFailure"]
    /\ UNCHANGED <<now, conversion_failures, alerts, uuids,
                   epc, eloc, enqReturns, rpc, rloc, retryReturns,
                   requeues, retryCalls, runs>>
    /\ UNCHANGED attributionVars

\* logFailure(job, ...): one row in conversion_failures
ProcessLogFailure(p) ==
    /\ ppc[p] = "logFailure"
    /\ conversion_failures' =
           Append(conversion_failures, FailureRow(ploc[p].job, ploc[p].err))
    /\ ppc' = [ppc EXCEPT ![p] = "alert"]
    /\ UNCHANGED <<now, conversion_queue, alerts, uuids,
                   epc, eloc, enqReturns, ploc, rpc, rloc, retryReturns,
                   sent, requeues, retryCalls, runs>>
    /\ UNCHANGED attributionVars

\* what becomes of the alert mail: sent, skipped because SMTP is not
\* configured, or refused by the transport
AlertOutcomes == {"sent", "not_configured", "send_failed"}

\* faulty variant: a mail that could not be sent is an exception
AlertResolves_OnlyWhenSent(outcome) == outcome = "sent"

\* sendConversionFailureAlert resolves whatever the outcome: the transport
\* error is caught inside it
AlertResolves(outcome) == outcome \in {"sent", "not_configured", "send_failed"}

\* alertService.sendConversionFailureAlert({jobId, payload, error, attempts}),
\* awaited in the catch block of the loop: when it resolves the job is counted
\* and the loop goes on; an exception would leave processQueue
ProcessAlert(p, outcome) ==
    /\ ppc[p] = "alert"
    /\ alerts' = IF outcome = "sent"
                  THEN Append(alerts,
                           [ jobId    |-> ploc[p].job.job_id,
                             error    |-> ErrorMessage(ploc[p].err),
                             attempts |-> ploc[p].job.attempts + 1 ])
                  ELSE alerts
    /\ IF AlertResolves(outcome)
       THEN /\ ploc' = [ploc EXCEPT ![p].results.dead = @ + 1,
                                    ![p].job = NoJob, ![p].err = NoError]
            /\ ppc' = [ppc EXCEPT ![p] = "loop"]
       ELSE /\ ploc' = [ploc EXCEPT ![p] = NoLocals]
            /\ ppc' = [ppc EXCEPT ![p] = "idle"]
    /\ UNCHANGED <<now, conversion_queue, conversion_failures, uuids,
                   epc, eloc, enqReturns, rpc, rloc, retryReturns,
                   sent, requeues, retryCalls, runs>>
    /\ UNCHANGED attributionVars

(***************************************************************************)
(* retryDeadJob                                                            *)
(***************************************************************************)
\* faulty variant: the lookup does not ask for status dead
FindDead_AnyStatus(tbl, jobId) == FindByJobId(tbl, jobId)

\* knex(...).where('job_id', jobId).where('status', 'dead').first()
FindDead(tbl, jobId) ==
    IF \E i \in RowIds(tbl) : tbl[i].job_id = jobId /\ tbl[i].status = "dead"
    THEN CHOOSE i \in RowIds(tbl) : tbl[i].job_id = jobId /\ tbl[i].status = "dead"
    ELSE 0

\* the locals and the outcome of a retryDeadJob call that is not running
NoRetry == [jobId |-> Null, id |-> 0]

NoRetryReturn == [success |-> FALSE, message |-> Null]

\* the job ids an operator may ask to retry: those of the table and a missing one
RetryTargets == {conversion_queue[i].job_id : i \in RowIds(conversion_queue)}
                    \cup {"conv_missing"}

\* faulty variant: the error of the last life is left on the row
RequeueUpdate_KeepsError(t) ==
    [ status        |-> "pending",
      attempts      |-> 0,
      next_retry_at |-> t ]

\* the columns retryDeadJob writes at time t
RequeueUpdate(t) ==
    [ status        |-> "pending",
      attempts      |-> 0,
      next_retry_at |-> t,
      last_error    |-> Null,
      error_code    |-> Null ]

\* retryDeadJob, the lookup: a job that is missing or not dead is refused
RetryFind(r, jobId) ==
    /\ rpc[r] = "idle"
    /\ \A q \in EarlierOperators(r) : rpc[q] # "idle"
    /\ LET found == FindDead(conversion_queue, jobId)
       IN  IF found = 0
           THEN /\ retryReturns' = [retryReturns EXCEPT ![r] =
                       [success |-> FALSE, message |-> "Job not found or not dead"]]
                /\ rpc' = [rpc EXCEPT ![r] = "done"]
                /\ rloc' = [rloc EXCEPT ![r] = [jobId |-> jobId, id |-> 0]]
           ELSE /\ rpc' = [rpc EXCEPT ![r] = "update"]
                /\ rloc' = [rloc EXCEPT ![r] = [jobId |-> jobId, id |-> found]]
                /\ UNCHANGED retryReturns
    /\ UNCHANGED <<now, conversion_queue, conversion_failures, alerts, uuids,
                   epc, eloc, enqReturns, ppc, ploc, sent, requeues, runs>>
    /\ UNCHANGED attributionVars

\* one more retryDeadJob call is made, of the maxCalls the model follows
CountRetry(maxCalls) == retryCalls < maxCalls /\ retryCalls' = retryCalls + 1

\* retryDeadJob, the update, by row id
RetryUpdate(r) ==
    /\ rpc[r] = "update"
    /\ conversion_queue' = UpdateRow(conversion_queue, rloc[r].id, RequeueUpdate(now))
    /\ sent' = [sent EXCEPT ![rloc[r].id] = <<>>]
    /\ requeues' = [requeues EXCEPT ![rloc[r].id] = @ + 1]
    /\ retryReturns' = [retryReturns EXCEPT ![r] =
           [success |-> TRUE, message |-> "Job requeued"]]
    /\ rpc' = [rpc EXCEPT ![r] = "done"]
    /\ UNCHANGED <<now, conversion_failures, alerts, uuids,
                   epc, eloc, enqReturns, ppc, ploc, rloc, retryCalls, runs>>
    /\ UNCHANGED attributionVars

\* the admin request ends
RetryDone(r) ==
    /\ rpc[r] = "done"
    /\ rpc' = [rpc EXCEPT ![r] = "idle"]
    /\ rloc' = [rloc EXCEPT ![r] = NoRetry]
    /\ retryReturns' = [retryReturns EXCEPT ![r] = NoRetryReturn]
    /\ UNCHANGED <<now, conversion_queue, conversion_failures, alerts, uuids,
                   epc, eloc, enqReturns, ppc, ploc, sent, requeues, retryCalls, runs>>
    /\ UNCHANGED attributionVars

(***************************************************************************)
(* Timestamps in the database                                              *)
(***************************************************************************)
\* the clients knex can be configured with: sqlite3 unless DB_CLIENT says pg
Clients == {"sqlite3", "pg"}

\* new Date(t).toISOString(): a text in ISO 8601, whose alphabetical order is
\* the order of the instants
ISOString(t) == [repr |-> "text", at |-> t]

\* new Date(t), a Date object handed to a statement
DateObject(t) == [repr |-> "date", at |-> t]

\* what a timestamp column holds once v is written to it: pg converts either
\* form to a timestamp; sqlite3 keeps a text as it is and binds a Date object
\* as its number of milliseconds
Stored(c, v) ==
    IF c = "pg" THEN [repr |-> "timestamp", at |-> v.at]
    ELSE IF v.repr = "date" THEN [repr |-> "number", at |-> v.at]
    ELSE v

\* column > parameter, as the database evaluates it: pg compares instants;
\* sqlite3 compares two texts or two numbers by value and puts every number
\* before every text
GreaterThan(c, column, param) ==
    LET p == Stored(c, param)
    IN  IF column.repr = p.repr THEN column.at > p.at
        ELSE column.repr = "text" /\ p.repr = "number"

(***************************************************************************)
(* parseWixOrderPayload                                                    *)
(***************************************************************************)
\* a || b || ... : the first truthy operand, the last operand when none is
RECURSIVE OrChain(_)
OrChain(xs) ==
    IF Len(xs) = 1 THEN Head(xs)
    ELSE IF Truthy(Head(xs)) THEN Head(xs)
    ELSE OrChain(Tail(xs))

UpperCase == <<"A", "B", "C", "D", "E", "F", "G", "H", "I", "J", "K", "L", "M",
               "N", "O", "P", "Q", "R", "S", "T", "U", "V", "W", "X", "Y", "Z">>

LowerCase == <<"a", "b", "c", "d", "e", "f", "g", "h", "i", "j", "k", "l", "m",
               "n", "o", "p", "q", "r", "s", "t", "u", "v", "w", "x", "y", "z">>

Digits == {"0", "1", "2", "3", "4", "5", "6", "7", "8", "9"}

\* the character class [A-Za-z0-9_-]
IdChars ==
    {UpperCase[k] : k \in DOMAIN UpperCase} \cup {LowerCase[k] : k \in DOMAIN LowerCase}
        \cup Digits \cup {"_", "-"}

\* the character class \s
Whitespace == {" ", "\t", "\n"}

\* a character as the i flag compares it
Lower(c) ==
    IF \E k \in DOMAIN UpperCase : UpperCase[k] = c
    THEN LowerCase[CHOOSE k \in DOMAIN UpperCase : UpperCase[k] = c]
    ELSE c

\* the alternatives (?:ref|aid|affiliate), in the order they are tried
RefKeywords ==
    << <<"r", "e", "f">>, <<"a", "i", "d">>,
       <<"a", "f", "f", "i", "l", "i", "a", "t", "e">> >>

\* the characters of a sequence, as one string
RECURSIVE Join(_)
Join(cs) == IF cs = <<>> THEN "" ELSE Head(cs) \o Join(Tail(cs))

\* the first position from j on that does not hold a character of the class
RECURSIVE SkipWhile(_, _, _)
SkipWhile(text, j, class) ==
    IF j <= Len(text) /\ text[j] \in class THEN SkipWhile(text, j + 1, class) ELSE j

\* the keyword kw stands at position i of the text
KeywordAt(text, i, kw) ==
    /\ i + Len(kw) - 1 <= Len(text)
    /\ \A k \in 1 .. Len(kw) : Lower(text[i + k - 1]) = kw[k]

\* faulty variant: the capture runs to the end of the note
CaptureFrom_ToEnd(text, j) ==
    SubSeq(text, SkipWhile(text, j, Whitespace), Len(text))

\* \s*([A-Za-z0-9_-]+) from position j: the captured characters, <<>> when
\* the pattern does not match there
CaptureFrom(text, j) ==
    LET from == SkipWhile(text, j, Whitespace)
        to   == SkipWhile(text, from, IdChars)
    IN  SubSeq(text, from, to - 1)

\* [=:]?\s*([A-Za-z0-9_-]+) after a keyword that ends before position j
AfterKeyword(text, j) ==
    IF j <= Len(text) /\ text[j] \in {"=", ":"} /\ CaptureFrom(text, j + 1) # <<>>
    THEN CaptureFrom(text, j + 1)
    ELSE CaptureFrom(text, j)

\* the capture of the pattern anchored at position i, <<>> when it does not
\* match there
MatchAt(text, i) ==
    LET hits == {k \in DOMAIN RefKeywords :
                    /\ KeywordAt(text, i, RefKeywords[k])
                    /\ AfterKeyword(text, i + Len(RefKeywords[k])) # <<>>}
    IN  IF hits = {} THEN <<>>
        ELSE LET k == CHOOSE k \in hits : \A h \in hits : k <= h
             IN  AfterKeyword(text, i + Len(RefKeywords[k]))

\* buyerNote.match(/(?:ref|aid|affiliate)[=:]?\s*([A-Za-z0-9_-]+)/i): group 1
\* of the leftmost match, Null when the note does not match
RefMatch(text) ==
    LET starts == {i \in 1 .. Len(text) : MatchAt(text, i) # <<>>}
    IN  IF starts = {} THEN Null
        ELSE Join(MatchAt(text, CHOOSE i \in starts : \A j \in starts : i <= j))

\* the keys of the custom-fields map the parser reads
CustomKeys ==
    {"aid", "affiliateId", "affiliate_id", "ref", "cid", "campaignId", "campaign_id",
     "sessionId", "session_id", "sid"}

AffiliateNames == {"aid", "affiliate_id", "affiliateId", "ref"}

CampaignNames == {"cid", "campaign_id", "campaignId"}

SessionNames == {"sid", "session_id", "sessionId"}

\* the loop over buyerInfo.customFields: each entry fills the field its
\* name stands for, unless the field has a truthy value already
RECURSIVE BuyerFields(_, _)
BuyerFields(acc, fields) ==
    IF fields = <<>> THEN acc
    ELSE LET field == Head(fields)
             step  == [ affiliateId |-> IF field.name \in AffiliateNames
                                        THEN OrChain(<<acc.affiliateId, field.value>>)
                                        ELSE acc.affiliateId,
                        campaignId  |-> IF field.name \in CampaignNames
                                        THEN OrChain(<<acc.campaignId, field.value>>)
                                        ELSE acc.campaignId,
                        sessionId   |-> IF field.name \in SessionNames
                                        THEN OrChain(<<acc.sessionId, field.value>>)
                                        ELSE acc.sessionId ]
         IN  BuyerFields(step, Tail(fields))

\* faulty variant: the custom-fields map is read before the buyer note
NoteThenCustom_CustomFirst(note, cf) ==
    OrChain(<<cf["aid"], cf["affiliateId"], cf["affiliate_id"], cf["ref"], note>>)

\* affiliateId after sources 1 and 2: the buyer note, then the aliases of
\* the custom-fields map
NoteThenCustom(note, cf) ==
    OrChain(<<note, cf["aid"], cf["affiliateId"], cf["affiliate_id"], cf["ref"]>>)

\* parseWixOrderPayload(body): the fields of the canonical order that
\* attribution and the webhook handler use
parseWixOrderPayload(b) ==
    LET cf      == b.customFields
        ch      == b.channelInfo
        fromMap == [ affiliateId |-> OrChain(<<NoteThenCustom(RefMatch(b.buyerNote), cf),
                                               ch.affiliateId, ch.externalOrderId>>),
                     campaignId  |-> OrChain(<<Null, cf["cid"], cf["campaignId"],
                                               cf["campaign_id"]>>),
                     sessionId   |-> OrChain(<<Null, cf["sessionId"], cf["session_id"],
                                               cf["sid"]>>) ]
        merged  == BuyerFields(fromMap, b.buyerCustomFields)
    IN  [ orderId       |-> OrChain(<<b.id, Null>>),
          customerEmail |-> OrChain(<<b.email, Null>>),
          affiliateId   |-> merged.affiliateId,
          campaignId    |-> merged.campaignId,
          sessionId     |-> merged.sessionId,
          visitorId     |-> OrChain(<<b.visitorId, Null>>),
          siteId        |-> OrChain(<<b.siteId, Null>>),
          eventType     |-> OrChain(<<b.eventType, "OrderPaid">>) ]

(***************************************************************************)
(* Session store: trackSession, identifyVisitor, findAffiliateByVisitor    *)
(***************************************************************************)
\* SESSION_TTL_DAYS, 30 days by default, in seconds
SESSION_TTL == 2592000

\* the window of the site-level lookup, 24 hours, in seconds
SITE_RECENT_WINDOW == 86400

\* a value as it is written to a column: undefined becomes NULL
Column(x) == IF x = Undefined THEN Null ELSE x

\* knex('visitor_sessions').where('session_id', sessionId).first(): the id of
\* the row, 0 when none
FindSession(tbl, sessionId) ==
    IF \E i \in RowIds(tbl) : tbl[i].session_id = sessionId
    THEN CHOOSE i \in RowIds(tbl) :
             /\ tbl[i].session_id = sessionId
             /\ \A j \in RowIds(tbl) : tbl[j].session_id = sessionId => i <= j
    ELSE 0

\* faulty variant: the rows come unordered, any of them may be first
MostRecent_Any(tbl, ids) == ids

\* the rows ORDER BY created_at DESC may put first
MostRecent(tbl, ids) ==
    {i \in ids : \A j \in ids : tbl[j].created_at.at <= tbl[i].created_at.at}

\* sessionId || crypto.randomUUID()
FinalSessionId(sessionId, uuid) == IF Truthy(sessionId) THEN sessionId ELSE uuid

\* the row trackSession inserts
NewSession(c, sessionId, req, t) ==
    [ session_id  |-> sessionId,
      site_id     |-> Column(req.siteId),
      visitor_id  |-> Column(req.visitorId),
      affiliate_id |-> Column(req.affiliateId),
      campaign_id |-> Column(req.campaignId),
      utm_source  |-> Column(req.utm_source),
      metadata    |-> Null,
      expires_at  |-> Stored(c, ISOString(t + SESSION_TTL)),
      created_at  |-> Stored(c, ISOString(t)) ]

\* the columns trackSession writes to a session that exists
TrackUpdate(c, existing, req, t) ==
    [ affiliate_id |-> OrChain(<<req.affiliateId, existing.affiliate_id>>),
      campaign_id  |-> OrChain(<<req.campaignId, existing.campaign_id>>),
      utm_source   |-> OrChain(<<req.utm_source, existing.utm_source>>),
      expires_at   |-> Stored(c, DateObject(t + SESSION_TTL)) ]

\* knex('visitor_sessions').where('session_id', sessionId).update(changes)
UpdateSessions(tbl, sessionId, changes) ==
    [i \in RowIds(tbl) |->
        IF tbl[i].session_id = sessionId THEN changes @@ tbl[i] ELSE tbl[i]]

\* one more tracking or identify call is made, of the maxCalls the model
\* follows
CountTrack(maxCalls) == tracked < maxCalls /\ tracked' = tracked + 1

\* POST /track/session: update the session when it exists, insert it when
\* it does not
TrackSession(req) ==
    /\ ~resolved.done
    /\ LET uuid      == RandomUUID(uuids + 1)
           sessionId == FinalSessionId(req.sessionId, uuid)
           existing  == FindSession(visitor_sessions, sessionId)
       IN  /\ uuids' = IF sessionId = uuid THEN uuids + 1 ELSE uuids
           /\ visitor_sessions' =
                  IF existing # 0
                  THEN UpdateSessions(visitor_sessions, sessionId,
                           TrackUpdate(client, visitor_sessions[existing], req, now))
                  ELSE Append(visitor_sessions, NewSession(client, sessionId, req, now))
    /\ UNCHANGED <<now, conversion_queue, conversion_failures, alerts,
                   epc, eloc, enqReturns, ppc, ploc,
                   rpc, rloc, retryReturns, sent, requeues, retryCalls, runs>>
    /\ UNCHANGED <<client, order_webhooks, resolved, body, parsed,
                   hpc, hloc, responses, stats>>

\* the session identifyVisitor works on: the one with the session id, else
\* the most recent one of the visitor (on the site, when a site is given);
\* 0 when there is none
IdentifyTargets(tbl, req) ==
    LET bySession == IF Truthy(req.sessionId) THEN FindSession(tbl, req.sessionId) ELSE 0
        ofVisitor == {i \in RowIds(tbl) :
                         /\ tbl[i].visitor_id = req.visitorId
                         /\ Truthy(req.siteId) => tbl[i].site_id = req.siteId}
    IN  IF bySession # 0 THEN {bySession}
        ELSE IF Truthy(req.visitorId) /\ ofVisitor # {} THEN MostRecent(tbl, ofVisitor)
        ELSE {0}

\* the columns identifyVisitor writes to the session it found
IdentifyUpdate(session, req) ==
    (IF Truthy(req.affiliateId) /\ ~Truthy(session.affiliate_id)
     THEN [affiliate_id |-> req.affiliateId] ELSE <<>>)
    @@ (IF Truthy(req.campaignId) /\ ~Truthy(session.campaign_id)
        THEN [campaign_id |-> req.campaignId] ELSE <<>>)
    @@ [metadata |-> OrChain(<<req.email, session.metadata>>)]

\* the row identifyVisitor inserts when it found no session
IdentifiedSession(c, sessionId, req, t) ==
    [ session_id  |-> sessionId,
      site_id     |-> Column(req.siteId),
      visitor_id  |-> Column(req.visitorId),
      affiliate_id |-> Column(req.affiliateId),
      campaign_id |-> Column(req.campaignId),
      utm_source  |-> Null,
      metadata    |-> Column(req.email),
      expires_at  |-> Stored(c, ISOString(t + SESSION_TTL)),
      created_at  |-> Stored(c, ISOString(t)) ]

\* POST /visitor/identify, for a request that names a session or a visitor
IdentifyVisitor(req) ==
    /\ ~resolved.done
    /\ Truthy(req.sessionId) \/ Truthy(req.visitorId)
    /\ \E target \in IdentifyTargets(visitor_sessions, req) :
          LET uuid      == RandomUUID(uuids + 1)
              sessionId == FinalSessionId(req.sessionId, uuid)
          IN  IF target # 0
              THEN /\ visitor_sessions' =
                          UpdateSessions(visitor_sessions,
                              visitor_sessions[target].session_id,
                              IdentifyUpdate(visitor_sessions[target], req))
                   /\ UNCHANGED uuids
              ELSE /\ visitor_sessions' =
                          Append(visitor_sessions,
                                 IdentifiedSession(client, sessionId, req, now))
                   /\ uuids' = IF sessionId = uuid THEN uuids + 1 ELSE uuids
    /\ UNCHANGED <<now, conversion_queue, conversion_failures, alerts,
                   epc, eloc, enqReturns, ppc, ploc,
                   rpc, rloc, retryReturns, sent, requeues, retryCalls, runs>>
    /\ UNCHANGED <<client, order_webhooks, resolved, body, parsed,
                   hpc, hloc, responses, stats>>

\* faulty variant: the lookups do not look at expires_at
Live_NoExpiry(c, row, t) == row.affiliate_id # Null

\* .where('expires_at', '>', now).whereNotNull('affiliate_id')
Live(c, row, t) ==
    /\ GreaterThan(c, row.expires_at, ISOString(t))
    /\ row.affiliate_id # Null

\* what findAffiliateByVisitor returns for a session row
SessionHit(row, source) ==
    [ affiliateId |-> row.affiliate_id, campaignId |-> row.campaign_id,
      source |-> source ]

\* no attribution: the null resolveAffiliate and findAffiliateByVisitor return
NoAttribution == [affiliateId |-> Null, campaignId |-> Null, source |-> Null]

\* priority 1: the sessions with the order's sessionId
BySessionId(c, tbl, q, t) ==
    IF Truthy(q.sessionId)
    THEN {i \in RowIds(tbl) : tbl[i].session_id = q.sessionId /\ Live(c, tbl[i], t)}
    ELSE {}

\* priority 2: the most recent session of the visitor, on the site when the
\* order names one
ByVisitorId(c, tbl, q, t) ==
    IF Truthy(q.visitorId)
    THEN MostRecent(tbl, {i \in RowIds(tbl) :
                            /\ tbl[i].visitor_id = q.visitorId
                            /\ Truthy(q.siteId) => tbl[i].site_id = q.siteId
                            /\ Live(c, tbl[i], t)})
    ELSE {}

\* priority 3: the most recent session of the site created in the last 24
\* hours
BySiteId(c, tbl, q, t) ==
    IF Truthy(q.siteId)
    THEN MostRecent(tbl, {i \in RowIds(tbl) :
                            /\ tbl[i].site_id = q.siteId
                            /\ Live(c, tbl[i], t)
                            /\ GreaterThan(c, tbl[i].created_at,
                                           ISOString(t - SITE_RECENT_WINDOW))})
    ELSE {}

\* one lookup of findAffiliateByVisitor: the row .first() returns is one of
\* found; a row with a truthy affiliate_id is the answer, anything else
\* leaves the answer to the lookups that follow
Lookup(tbl, found, source, otherwise) ==
    {SessionHit(tbl[i], source) : i \in {k \in found : Truthy(tbl[k].affiliate_id)}}
        \cup (IF found = {} \/ \E k \in found : ~Truthy(tbl[k].affiliate_id)
              THEN otherwise ELSE {})

\* findAffiliateByVisitor({siteId, visitorId, email, sessionId}) at time t:
\* the results the database allows
findAffiliateByVisitor(c, tbl, q, t) ==
    Lookup(tbl, BySessionId(c, tbl, q, t), "session",
        Lookup(tbl, ByVisitorId(c, tbl, q, t), "visitor_id",
            Lookup(tbl, BySiteId(c, tbl, q, t), "site_recent", {NoAttribution})))

(***************************************************************************)
(* resolveAffiliate                                                        *)
(***************************************************************************)
\* .limit(10) of the historic lookup
HISTORIC_LIMIT == 10

\* payload LIKE '%email%': the address occurs somewhere in the stored text;
\* the only text of a stored order of the model that holds an address is
\* its e-mail field, and no address of the model is a piece of another
PayloadLike(payload, email) == payload.email = email

\* the row handleWixOrderWebhook stores for a webhook
StoredWebhook(c, b, t) == [payload |-> b, created_at |-> Stored(c, DateObject(t))]

\* the historic lookup: of the 10 most recent stored orders that hold the
\* e-mail, the first whose payload parses to a truthy affiliateId; rows of
\* equal created_at come in whatever order the database returns them
HistoricOrder(tbl, order) ==
    LET matches    == {i \in RowIds(tbl) : PayloadLike(tbl[i].payload, order.customerEmail)}
        attributed == {i \in matches :
                          Truthy(parseWixOrderPayload(tbl[i].payload).affiliateId)}
        plain      == matches \ attributed
        first      == {a \in attributed :
                          /\ \A i \in attributed :
                                 tbl[i].created_at.at <= tbl[a].created_at.at
                          /\ Cardinality({u \in plain :
                                 tbl[u].created_at.at > tbl[a].created_at.at})
                                 < HISTORIC_LIMIT}
        none       == \A a \in attributed :
                          Cardinality({u \in plain :
                              tbl[u].created_at.at >= tbl[a].created_at.at})
                              >= HISTORIC_LIMIT
    IN  { [ affiliateId |-> parseWixOrderPayload(tbl[a].payload).affiliateId,
            campaignId  |-> OrChain(<<parseWixOrderPayload(tbl[a].payload).campaignId,
                                      order.campaignId>>),
            source      |-> "historic_order" ] : a \in first }
        \cup (IF none THEN {NoAttribution} ELSE {})

\* faulty variant: the sessions are asked before the order itself
resolveAffiliate_SessionFirst(c, sessions, webhooks, order, t) ==
    LET bySession == {s \in findAffiliateByVisitor(c, sessions, order, t) :
                         Truthy(s.affiliateId)}
    IN  IF bySession # {}
        THEN { [ affiliateId |-> s.affiliateId,
                 campaignId  |-> OrChain(<<s.campaignId, order.campaignId>>),
                 source      |-> s.source ] : s \in bySession }
        ELSE IF Truthy(order.affiliateId)
        THEN { [ affiliateId |-> order.affiliateId, campaignId |-> order.campaignId,
                 source |-> "order_direct" ] }
        ELSE {NoAttribution}

\* resolveAffiliate(parsedOrder) at time t: the results the database allows
resolveAffiliate(c, sessions, webhooks, order, t) ==
    IF Truthy(order.affiliateId)
    THEN { [ affiliateId |-> order.affiliateId, campaignId |-> order.campaignId,
             source |-> "order_direct" ] }
    ELSE UNION { IF Truthy(s.affiliateId)
                 THEN { [ affiliateId |-> s.affiliateId,
                          campaignId  |-> OrChain(<<s.campaignId, order.campaignId>>),
                          source      |-> s.source ] }
                 ELSE IF Truthy(order.customerEmail)
                 THEN HistoricOrder(webhooks, order)
                 ELSE {NoAttribution} :
                 s \in findAffiliateByVisitor(c, sessions, order, t) }

\* a canonical order with nothing in it
NoOrder ==
    [ orderId |-> Null, customerEmail |-> Null, affiliateId |-> Null,
      campaignId |-> Null, sessionId |-> Null, visitorId |-> Null,
      siteId |-> Null, eventType |-> "OrderPaid" ]

\* no resolveAffiliate call made yet
NoResolve == [done |-> FALSE, order |-> NoOrder, result |-> NoAttribution, at |-> 0]

\* resolveAffiliate(order), called once the sessions are tracked
Resolve(order) ==
    /\ ~resolved.done
    /\ \E result \in resolveAffiliate(client, visitor_sessions, order_webhooks, order, now) :
          resolved' = [done |-> TRUE, order |-> order, result |-> result, at |-> now]
    /\ UNCHANGED <<now, conversion_queue, conversion_failures, alerts, uuids,
                   epc, eloc, enqReturns, ppc, ploc,
                   rpc, rloc, retryReturns, sent, requeues, retryCalls, runs>>
    /\ UNCHANGED <<client, visitor_sessions, order_webhooks, tracked, body, parsed,
                   hpc, hloc, responses, stats>>

\* the moments at which the lookups change their mind about a session made
\* at the start: when the site-level window ends, when the session expires,
\* and a window after that
SessionInstants ==
    {SITE_RECENT_WINDOW, SESSION_TTL, SESSION_TTL + SITE_RECENT_WINDOW}

\* time passes between two requests, up to the horizon
Elapse(limit) ==
    /\ ~resolved.done
    /\ \E t \in SessionInstants : t > now /\ t <= limit /\ now' = t
    /\ UNCHANGED <<conversion_queue, conversion_failures, alerts, uuids,
                   epc, eloc, enqReturns, ppc, ploc,
                   rpc, rloc, retryReturns, sent, requeues, retryCalls, runs>>
    /\ UNCHANGED attributionVars

(***************************************************************************)
(* Orders, sessions and requests of the model                              *)
(***************************************************************************)
\* an order webhook with none of the fields the parser reads
EmptyBody ==
    [ id |-> Undefined, eventType |-> Undefined, email |-> Undefined,
      siteId |-> Undefined, visitorId |-> Undefined,
      buyerNote |-> <<>>,
      customFields |-> [k \in CustomKeys |-> Undefined],
      channelInfo |-> [affiliateId |-> Undefined, externalOrderId |-> Undefined],
      buyerCustomFields |-> <<>> ]

\* buyer notes: "ref=AFF-1", "REF: n7" and "paid cash"
NoteRef == <<"r", "e", "f", "=", "A", "F", "F", "-", "1">>

NoteUpper == <<"R", "E", "F", ":", " ", "n", "7">>

NotePaid == <<"p", "a", "i", "d", " ", "c", "a", "s", "h">>

Notes == {<<>>, NoteRef, NoteUpper, NotePaid}

\* how many keys of the custom-fields map an order sets
MaxCustomKeys == 2

\* how many entries the buyer custom-fields array of an order has
MaxBuyerFields == 2

\* a key of the custom-fields map: absent, empty, or set to a value that
\* names the key
CustomValue(k, mode) ==
    IF mode = "set" THEN "cf_" \o k ELSE IF mode = "empty" THEN "" ELSE Undefined

\* the custom-fields maps with up to n keys set, and up to one empty
CustomMaps(n) ==
    { [k \in CustomKeys |-> IF k \in set THEN CustomValue(k, "set")
                            ELSE IF k \in empty THEN CustomValue(k, "empty")
                            ELSE Undefined] :
        set \in {s \in SUBSET CustomKeys : Cardinality(s) <= n},
        empty \in {s \in SUBSET {"aid", "cid"} : Cardinality(s) <= 1} }

ChannelInfos ==
    [ affiliateId : {Undefined, "ch_affiliateId"},
      externalOrderId : {Undefined, "ch_externalOrderId"} ]

\* the buyer custom-fields arrays with up to n entries: each entry has one
\* of the names the parser knows and holds a value that names its place in
\* the array, or is an affiliate entry with an empty value
BuyerArrays(n) ==
    UNION { { [i \in 1 .. k |->
                  [ name  |-> IF names[i] = "" THEN "aid" ELSE names[i],
                    value |-> IF names[i] = "" THEN "" ELSE "bf" \o ToString(i) ]] :
              names \in [1 .. k -> {"aid", "cid", "sid", ""}] } :
            k \in 0 .. n }

\* the orders handed to parseWixOrderPayload
ParseBodies(maxKeys, maxFields) ==
    { [EmptyBody EXCEPT !.buyerNote = n, !.customFields = cf,
                        !.channelInfo = ch, !.buyerCustomFields = bf] :
        n \in Notes, cf \in CustomMaps(maxKeys), ch \in ChannelInfos,
        bf \in BuyerArrays(maxFields) }

SessionIds == {"s1", "s2"}

VisitorIds == {"v1"}

SiteIds == {"site1"}

AffiliateIds == {"AFF1", "AFF2"}

CampaignIds == {"CAMP1"}

\* the bodies of POST /track/session
TrackRequests ==
    [ sessionId : SessionIds, visitorId : VisitorIds, siteId : SiteIds,
      affiliateId : AffiliateIds \cup {Undefined},
      campaignId : CampaignIds \cup {Undefined},
      utm_source : {"google"} ]

\* the bodies of POST /visitor/identify
IdentifyRequests ==
    [ sessionId : SessionIds \cup {Undefined}, visitorId : {"v1"}, siteId : SiteIds,
      email : {"ann@shop.com"},
      affiliateId : {"AFF2", Undefined}, campaignId : {Undefined} ]

\* the canonical orders handed to resolveAffiliate: with an affiliate of
\* their own, or with any of the keys the lookups go by
ResolveOrders ==
    [ orderId : {"order-002"}, customerEmail : {"ann@shop.com"},
      affiliateId : {"AFF9"}, campaignId : {"CAMP9", Null},
      sessionId : {"s1"}, visitorId : {"v1"}, siteId : {"site1"},
      eventType : {"OrderPaid"} ]
    \cup
    [ orderId : {"order-002"}, customerEmail : {"ann@shop.com", Null},
      affiliateId : {Null}, campaignId : {"CAMP9"},
      sessionId : {"s1", Null}, visitorId : {"v1", Null}, siteId : {"site1", Null},
      eventType : {"OrderPaid"} ]

\* an earlier order of a customer, with or without an affiliate in its note
HistoricBody(email, note) ==
    [EmptyBody EXCEPT !.id = "order-000", !.email = email, !.buyerNote = note]

\* the stored orders when the order to resolve arrives: an attributed order
\* of the customer followed by k orders of hers without attribution
History(c, k) ==
    [i \in 1 .. k + 1 |->
        StoredWebhook(c, HistoricBody("ann@shop.com", IF i = 1 THEN NoteRef ELSE <<>>),
                      i - (k + 2))]

\* the stored orders the model starts from: the attributed order is the
\* last of the 10 most recent, or the one before them
Histories(c) == {History(c, HISTORIC_LIMIT - 1), History(c, HISTORIC_LIMIT)}

\* the event types of the model
EventTypes == {"OrderPaid", "OrderCreated"}

\* the order webhooks of the model
WebhookBodies ==
    { [EmptyBody EXCEPT !.id = "order-001", !.email = "ann@shop.com",
                        !.siteId = "site1", !.eventType = ev, !.buyerNote = n,
                        !.customFields["sessionId"] = s] :
        ev \in EventTypes, n \in {<<>>, NoteRef}, s \in {"s1", Undefined} }

\* the sessions there are when the webhooks arrive: none, or one with an
\* affiliate
WebhookSessions(c) ==
    { <<>>,
      <<NewSession(c, "s1",
            [ siteId |-> "site1", visitorId |-> "v1", affiliateId |-> "AFF1",
              campaignId |-> "CAMP1", utm_source |-> Undefined ], 0)>> }

(***************************************************************************)
(* handleWixOrderWebhook                                                   *)
(***************************************************************************)
\* process.env.MARKETIN_BRAND_ID, as the deployment sets it
MARKETIN_BRAND_ID == "123"

\* paidEvents.some(e => eventType.toLowerCase().includes(e.toLowerCase())):
\* of the event types of the model, OrderPaid holds 'paid'
IsPaidEvent(eventType) == eventType \in {"OrderPaid"}

\* no response sent yet
NoResponse ==
    [ status |-> 0, ok |-> FALSE, skipped |-> FALSE, reason |-> Null,
      queued |-> FALSE, affiliateId |-> Null ]

\* the locals of a request that has not come in
NoRequest == [body |-> EmptyBody, parsedOrder |-> NoOrder, attribution |-> NoAttribution]

\* the conversion payload the handler builds: the fields the queue looks at
\* and the attribution
ConversionPayload(parsedOrder, attribution) ==
    [ brandId         |-> OrChain(<<MARKETIN_BRAND_ID, parsedOrder.siteId>>),
      externalOrderId |-> parsedOrder.orderId,
      affiliateId     |-> attribution.affiliateId,
      campaignId      |-> attribution.campaignId ]

\* faulty variant: an order that was queued before is refused
EnqueuedResponse_RefusesKnownJob(queueResult, attribution) ==
    IF queueResult.status = "pending"
    THEN [ status |-> 200, ok |-> TRUE, skipped |-> FALSE, reason |-> Null,
           queued |-> TRUE, affiliateId |-> attribution.affiliateId ]
    ELSE [ status |-> 500, ok |-> FALSE, skipped |-> FALSE, reason |-> Null,
           queued |-> FALSE, affiliateId |-> Null ]

\* the response once enqueueConversion has returned
EnqueuedResponse(queueResult, attribution) ==
    [ status |-> 200, ok |-> TRUE, skipped |-> FALSE, reason |-> Null,
      queued |-> queueResult.status = "pending",
      affiliateId |-> attribution.affiliateId ]

\* the response of the catch block
FailedResponse ==
    [ status |-> 500, ok |-> FALSE, skipped |-> FALSE, reason |-> Null,
      queued |-> FALSE, affiliateId |-> Null ]

SkippedResponse(reason) ==
    [ status |-> 200, ok |-> TRUE, skipped |-> TRUE, reason |-> reason,
      queued |-> FALSE, affiliateId |-> Null ]

\* handleWixOrderWebhook, up to its first await: a request whose signature
\* does not validate is answered 401; any other is stored as it came
HandleReceive(h, b, signed) ==
    /\ hpc[h] = "idle"
    /\ \A d \in Earlier(h) : hpc[d] # "idle"
    /\ IF signed
       THEN /\ order_webhooks' = Append(order_webhooks, StoredWebhook(client, b, now))
            /\ hpc' = [hpc EXCEPT ![h] = "stored"]
            /\ hloc' = [hloc EXCEPT ![h].body = b]
            /\ UNCHANGED responses
       ELSE /\ responses' = [responses EXCEPT ![h] =
                   [NoResponse EXCEPT !.status = 401]]
            /\ hpc' = [hpc EXCEPT ![h] = "done"]
            /\ UNCHANGED <<order_webhooks, hloc>>
    /\ UNCHANGED <<now, conversion_queue, conversion_failures, alerts, uuids,
                   epc, eloc, enqReturns, ppc, ploc,
                   rpc, rloc, retryReturns, sent, requeues, retryCalls, runs>>
    /\ UNCHANGED <<client, visitor_sessions, tracked, resolved, body, parsed, stats>>

\* faulty variant: an order nobody is credited for is queued all the same
Attributed_Always(attribution) == TRUE

\* attribution?.affiliateId
Attributed(attribution) == Truthy(attribution.affiliateId)

\* handleWixOrderWebhook, from the parse to the answer of resolveAffiliate:
\* an event that is not a payment and an order without attribution are
\* acknowledged and go no further
HandleOrder(h) ==
    /\ hpc[h] = "stored"
    /\ LET parsedOrder == parseWixOrderPayload(hloc[h].body)
       IN  IF ~IsPaidEvent(parsedOrder.eventType)
           THEN /\ responses' = [responses EXCEPT ![h] = SkippedResponse("not_paid_event")]
                /\ hpc' = [hpc EXCEPT ![h] = "done"]
                /\ hloc' = [hloc EXCEPT ![h].parsedOrder = parsedOrder]
           ELSE \E attribution \in resolveAffiliate(client, visitor_sessions,
                                                    order_webhooks, parsedOrder, now) :
                   /\ hloc' = [hloc EXCEPT ![h].parsedOrder = parsedOrder,
                                           ![h].attribution = attribution]
                   /\ IF Attributed(attribution)
                      THEN /\ hpc' = [hpc EXCEPT ![h] = "enqueue"]
                           /\ UNCHANGED responses
                      ELSE /\ responses' = [responses EXCEPT ![h] =
                                  SkippedResponse("no_affiliate")]
                           /\ hpc' = [hpc EXCEPT ![h] = "done"]
    /\ UNCHANGED <<now, conversion_queue, conversion_failures, alerts, uuids,
                   epc, eloc, enqReturns, ppc, ploc,
                   rpc, rloc, retryReturns, sent, requeues, retryCalls, runs>>
    /\ UNCHANGED <<client, visitor_sessions, order_webhooks, tracked, resolved,
                   body, parsed, stats>>

\* handleWixOrderWebhook calls enqueueConversion(conversionPayload, webhookId)
HandleEnqueue(h) ==
    /\ hpc[h] = "enqueue"
    /\ EnqueueCall(h, ConversionPayload(hloc[h].parsedOrder, hloc[h].attribution))

\* handleWixOrderWebhook, after enqueueConversion: the inline processQueue
\* is handed to setImmediate and the response is sent; an exception of
\* enqueueConversion is answered 500
HandleRespond(h) ==
    /\ hpc[h] = "enqueue"
    /\ epc[h] = "done"
    /\ responses' = [responses EXCEPT ![h] =
           IF enqReturns[h].status = Thrown THEN FailedResponse
           ELSE EnqueuedResponse(enqReturns[h], hloc[h].attribution)]
    /\ hpc' = [hpc EXCEPT ![h] = "done"]
    /\ UNCHANGED <<now, conversion_queue, conversion_failures, alerts, uuids,
                   epc, eloc, enqReturns, ppc, ploc,
                   rpc, rloc, retryReturns, sent, requeues, retryCalls, runs>>
    /\ UNCHANGED <<client, visitor_sessions, order_webhooks, tracked, resolved,
                   body, parsed, hloc, stats>>

\* the callbacks handed to setImmediate so far: one for each request that
\* got past enqueueConversion
Immediates ==
    Cardinality({h \in Enqueuers : hpc[h] = "done" /\ epc[h] = "done"
                                     /\ enqReturns[h].status # Thrown})

(***************************************************************************)
(* getQueueStats                                                           *)
(***************************************************************************)
\* the statuses a job can have
Statuses == {"pending", "processing", "failed", "completed", "dead"}

\* faulty variant: the jobs being delivered are left out of the counts
CountByStatus_NoProcessing(tbl) ==
    LET present == {tbl[i].status : i \in RowIds(tbl)} \ {"processing"}
    IN  [s \in present |-> Cardinality({i \in RowIds(tbl) : tbl[i].status = s})]

\* select status, count(*) ... group by status: one entry for each status
\* that some job has
CountByStatus(tbl) ==
    LET present == {tbl[i].status : i \in RowIds(tbl)}
    IN  [s \in present |-> Cardinality({i \in RowIds(tbl) : tbl[i].status = s})]

\* the window of the failure count, 24 hours, in seconds
FAILURES_WINDOW == 86400

\* the failure records created in the last 24 hours
Failures24h(tbl, t) ==
    Cardinality({i \in RowIds(tbl) : tbl[i].created_at > t - FAILURES_WINDOW})

\* no getQueueStats call made yet
NoStats == [called |-> FALSE, queue |-> <<>>, failures24h |-> 0]

\* getQueueStats()
GetQueueStats ==
    /\ stats' = [ called      |-> TRUE,
                  queue       |-> CountByStatus(conversion_queue),
                  failures24h |-> Failures24h(conversion_failures, now) ]
    /\ UNCHANGED <<now, conversion_queue, conversion_failures, alerts, uuids,
                   epc, eloc, enqReturns, ppc, ploc,
                   rpc, rloc, retryReturns, sent, requeues, retryCalls, runs>>
    /\ UNCHANGED <<client, visitor_sessions, order_webhooks, tracked, resolved,
                   body, parsed, hpc, hloc, responses>>

(***************************************************************************)
(* The parser as an operation                                              *)
(***************************************************************************)
\* parseWixOrderPayload not called yet
NotParsed == [done |-> FALSE, order |-> NoOrder]

\* parseWixOrderPayload(body)
Parse ==
    /\ ~parsed.done
    /\ parsed' = [done |-> TRUE, order |-> parseWixOrderPayload(body)]
    /\ UNCHANGED <<now, conversion_queue, conversion_failures, alerts, uuids,
                   epc, eloc, enqReturns, ppc, ploc,
                   rpc, rloc, retryReturns, sent, requeues, retryCalls, runs>>
    /\ UNCHANGED <<client, visitor_sessions, order_webhooks, tracked, resolved,
                   body, hpc, hloc, responses, stats>>

(***************************************************************************)
(* Clock and specifications                                                *)
(***************************************************************************)
\* the moments at which a rescheduled job is looked at again: when it falls
\* due, or Lateness after
Wakeups ==
    UNION { {conversion_queue[i].next_retry_at,
             conversion_queue[i].next_retry_at + Lateness} :
            i \in {k \in RowIds(conversion_queue) :
                      /\ conversion_queue[k].status = "failed"
                      /\ conversion_queue[k].next_retry_at > now} }

\* time passes while a rescheduled job waits, up to the horizon
Tick(limit) ==
    /\ \E t \in Wakeups : t <= limit /\ now' = t
    /\ UNCHANGED <<conversion_queue, conversion_failures, alerts, uuids,
                   epc, eloc, enqReturns, ppc, ploc,
                   rpc, rloc, retryReturns, sent, requeues, retryCalls, runs>>
    /\ UNCHANGED attributionVars

\* the queue after the migrations: both tables empty, nobody running
InitQueue ==
    /\ now = 0
    /\ conversion_queue = <<>>
    /\ conversion_failures = <<>>
    /\ alerts = <<>>
    /\ uuids = 0
    /\ epc = [e \in Enqueuers |-> "idle"]
    /\ eloc = [e \in Enqueuers |-> NoCall]
    /\ enqReturns = [e \in Enqueuers |-> NoReturn]
    /\ ppc = [p \in Consumers |-> "idle"]
    /\ ploc = [p \in Consumers |-> NoLocals]
    /\ rpc = [r \in Operators |-> "idle"]
    /\ rloc = [r \in Operators |-> NoRetry]
    /\ retryReturns = [r \in Operators |-> NoRetryReturn]
    /\ retryCalls = 0
    /\ runs = 0
    /\ sent = <<>>
    /\ requeues = <<>>

\* attribution and the webhook endpoint at rest: no session, no stored order,
\* no request
InitAttribution ==
    /\ client = "sqlite3"
    /\ visitor_sessions = <<>>
    /\ order_webhooks = <<>>
    /\ tracked = 0
    /\ resolved = NoResolve
    /\ body = EmptyBody
    /\ parsed = NotParsed
    /\ hpc = [h \in Enqueuers |-> "idle"]
    /\ hloc = [h \in Enqueuers |-> NoRequest]
    /\ responses = [h \in Enqueuers |-> NoResponse]
    /\ stats = NoStats

\* the state after the migrations; the specifications of the queue leave
\* attribution at rest
Init == InitQueue /\ InitAttribution

\* the inline trigger and the worker poll loop run processQueue against the
\* same tables, with webhooks enqueueing and an operator retrying dead jobs
Next ==
    \/ \E e \in Enqueuers, payload \in Payloads : EnqueueCheck(e, payload)
    \/ \E e \in Enqueuers : EnqueueInsert(e)
    \/ \E p \in Consumers : ProcessSelect(p) /\ CountRun(MaxRuns)
    \/ \E p \in Consumers : ProcessMark(p)
    \/ \E p \in Consumers : ProcessReturn(p)
    \/ \E p \in Consumers : ProcessSuccess(p)
    \/ \E p \in Consumers, err \in Errors : ProcessFailure(p, err)
    \/ \E p \in Consumers : ProcessLogFailure(p)
    \/ \E p \in Consumers, outcome \in AlertOutcomes : ProcessAlert(p, outcome)
    \/ \E r \in Operators : \E jobId \in RetryTargets :
          RetryFind(r, jobId) /\ CountRetry(MaxRetryCalls)
    \/ \E r \in Operators : RetryUpdate(r)
    \/ \E r \in Operators : RetryDone(r)
    \/ Tick(MaxTime)

Spec == Init /\ [][Next]_vars

\* no processQueue call is running
ConsumersIdle == \A p \in Consumers : ppc[p] = "idle"

\* no retryDeadJob call is running
OperatorsIdle == \A r \in Operators : rpc[r] = "idle"

\* one order and a single logical consumer: the inline trigger and the poll
\* loop both run processQueue, but never at the same time, and the operator
\* makes one retry request at a time; the clock runs long enough for the job
\* to use up its attempts
NextSingle ==
    \/ \E e \in Enqueuers : EnqueueCheck(e, TestOrder)
    \/ \E e \in Enqueuers : EnqueueInsert(e)
    \/ \E p \in Consumers : ConsumersIdle /\ ProcessSelect(p) /\ CountRun(MaxRunsSingle)
    \/ \E p \in Consumers : ProcessMark(p)
    \/ \E p \in Consumers : ProcessReturn(p)
    \/ \E p \in Consumers : ProcessSuccess(p)
    \/ \E p \in Consumers, err \in Errors : ProcessFailure(p, err)
    \/ \E p \in Consumers : ProcessLogFailure(p)
    \/ \E p \in Consumers, outcome \in AlertOutcomes : ProcessAlert(p, outcome)
    \/ \E r \in Operators : \E jobId \in RetryTargets :
          OperatorsIdle /\ RetryFind(r, jobId) /\ CountRetry(MaxRetryCalls)
    \/ \E r \in Operators : RetryUpdate(r)
    \/ \E r \in Operators : RetryDone(r)
    \/ Tick(MaxTimeSingle)

SpecSingle == Init /\ [][NextSingle]_vars

\* one order, a single logical consumer, and a delivery that may fail with
\* every kind of error
NextErrors ==
    \/ \E e \in Enqueuers : EnqueueCheck(e, TestOrder)
    \/ \E e \in Enqueuers : EnqueueInsert(e)
    \/ \E p \in Consumers : ConsumersIdle /\ ProcessSelect(p) /\ CountRun(MaxRunsErrors)
    \/ \E p \in Consumers : ProcessMark(p)
    \/ \E p \in Consumers : ProcessReturn(p)
    \/ \E p \in Consumers : ProcessSuccess(p)
    \/ \E p \in Consumers, err \in AllErrors : ProcessFailure(p, err)
    \/ \E p \in Consumers : ProcessLogFailure(p)
    \/ \E p \in Consumers, outcome \in AlertOutcomes : ProcessAlert(p, outcome)
    \/ \E r \in Operators : \E jobId \in RetryTargets :
          OperatorsIdle /\ RetryFind(r, jobId) /\ CountRetry(MaxRetryCalls)
    \/ \E r \in Operators : RetryUpdate(r)
    \/ \E r \in Operators : RetryDone(r)
    \/ Tick(MaxTimeErrors)

SpecErrors == Init /\ [][NextErrors]_vars

\* one order, a single logical consumer, and an operator whose retry request
\* for a dead job is sent twice
NextRetry ==
    \/ \E e \in Enqueuers : EnqueueCheck(e, TestOrder)
    \/ \E e \in Enqueuers : EnqueueInsert(e)
    \/ \E p \in Consumers : ConsumersIdle /\ ProcessSelect(p) /\ CountRun(MaxRunsRetry)
    \/ \E p \in Consumers : ProcessMark(p)
    \/ \E p \in Consumers : ProcessReturn(p)
    \/ \E p \in Consumers : ProcessSuccess(p)
    \/ \E p \in Consumers, err \in Errors : ProcessFailure(p, err)
    \/ \E p \in Consumers : ProcessLogFailure(p)
    \/ \E p \in Consumers, outcome \in AlertOutcomes : ProcessAlert(p, outcome)
    \/ \E r \in Operators : \E jobId \in RetryTargets :
          RetryFind(r, jobId) /\ CountRetry(MaxRetryCallsRetry)
    \/ \E r \in Operators : RetryUpdate(r)
    \/ \E r \in Operators : RetryDone(r)
    \/ Tick(MaxTime)

SpecRetry == Init /\ [][NextRetry]_vars

\* sendConversionDirect settles: it resolves or it throws
Answer(p) == ProcessSuccess(p) \/ \E err \in Errors : ProcessFailure(p, err)

\* a processQueue call that has started runs to its end
ProcessStep(p) ==
    \/ ProcessMark(p)
    \/ Answer(p)
    \/ ProcessLogFailure(p)
    \/ \E outcome \in AlertOutcomes : ProcessAlert(p, outcome)
    \/ ProcessReturn(p)

\* the poll loop of the worker: processQueue is called again and again
Poll == ConsumersIdle /\ ProcessSelect("worker") /\ UNCHANGED runs

\* one order, the worker polling for ever, the inline trigger firing between
\* two polls, an operator who may retry a dead job, and a clock that goes on
NextLive ==
    \/ \E e \in Enqueuers : EnqueueCheck(e, TestOrder)
    \/ \E e \in Enqueuers : EnqueueInsert(e)
    \/ \E p \in Consumers : ConsumersIdle /\ ProcessSelect(p) /\ UNCHANGED runs
    \/ \E p \in Consumers : ProcessStep(p)
    \/ \E r \in Operators : \E jobId \in RetryTargets :
          OperatorsIdle /\ RetryFind(r, jobId) /\ CountRetry(MaxRetryCalls)
    \/ \E r \in Operators : RetryUpdate(r)
    \/ \E r \in Operators : RetryDone(r)
    \/ Tick(MaxTimeLive)

\* the worker keeps polling, every call that started goes on, every delivery
\* is answered, and time advances
Fairness ==
    /\ WF_vars(Poll)
    /\ \A p \in Consumers : WF_vars(ProcessStep(p))
    /\ WF_vars(Tick(MaxTimeLive))

SpecLive == Init /\ [][NextLive]_vars /\ Fairness

(***************************************************************************)
(* Specifications of attribution and of the webhook endpoint               *)
(***************************************************************************)
\* the parser applied to each order of ParseBodies
InitParse ==
    /\ InitQueue
    /\ client = "sqlite3"
    /\ visitor_sessions = <<>>
    /\ order_webhooks = <<>>
    /\ tracked = 0
    /\ resolved = NoResolve
    /\ body \in ParseBodies(MaxCustomKeys, MaxBuyerFields)
    /\ parsed = NotParsed
    /\ hpc = [h \in Enqueuers |-> "idle"]
    /\ hloc = [h \in Enqueuers |-> NoRequest]
    /\ responses = [h \in Enqueuers |-> NoResponse]
    /\ stats = NoStats

NextParse == Parse

SpecParse == InitParse /\ [][NextParse]_vars

\* how many tracking and identify calls precede the order
MaxTracks == 2

\* how far the clock of the session store goes: a TTL and a day
MaxTimeSessions == 2678400

\* the session store under either client, with the orders stored before
InitSessions ==
    /\ InitQueue
    /\ client \in Clients
    /\ visitor_sessions = <<>>
    /\ order_webhooks \in Histories(client)
    /\ tracked = 0
    /\ resolved = NoResolve
    /\ body = EmptyBody
    /\ parsed = NotParsed
    /\ hpc = [h \in Enqueuers |-> "idle"]
    /\ hloc = [h \in Enqueuers |-> NoRequest]
    /\ responses = [h \in Enqueuers |-> NoResponse]
    /\ stats = NoStats

\* sessions are tracked and identified as time passes, then an order is
\* resolved
NextSessions ==
    \/ \E req \in TrackRequests : TrackSession(req) /\ CountTrack(MaxTracks)
    \/ \E req \in IdentifyRequests : IdentifyVisitor(req) /\ CountTrack(MaxTracks)
    \/ Elapse(MaxTimeSessions)
    \/ \E order \in ResolveOrders : Resolve(order)

SpecSessions == InitSessions /\ [][NextSessions]_vars

\* the webhook endpoint in front of an empty queue
InitWebhook ==
    /\ InitQueue
    /\ client \in Clients
    /\ visitor_sessions \in WebhookSessions(client)
    /\ order_webhooks = <<>>
    /\ tracked = 0
    /\ resolved = NoResolve
    /\ body = EmptyBody
    /\ parsed = NotParsed
    /\ hpc = [h \in Enqueuers |-> "idle"]
    /\ hloc = [h \in Enqueuers |-> NoRequest]
    /\ responses = [h \in Enqueuers |-> NoResponse]
    /\ stats = NoStats

\* two order webhooks come in; each request that gets past enqueueConversion
\* leaves one inline processQueue(5) to setImmediate
NextWebhook ==
    \/ \E h \in Enqueuers, b \in WebhookBodies, signed \in BOOLEAN :
          HandleReceive(h, b, signed)
    \/ \E h \in Enqueuers : HandleOrder(h)
    \/ \E h \in Enqueuers : HandleEnqueue(h)
    \/ \E h \in Enqueuers : EnqueueInsert(h)
    \/ \E h \in Enqueuers : HandleRespond(h)
    \/ ProcessSelect("inline") /\ CountRun(Immediates)
    \/ ProcessMark("inline")
    \/ ProcessReturn("inline")
    \/ ProcessSuccess("inline")
    \/ \E err \in Errors : ProcessFailure("inline", err)
    \/ ProcessLogFailure("inline")
    \/ \E outcome \in AlertOutcomes : ProcessAlert("inline", outcome)
    \/ Tick(MaxTime)

SpecWebhook == InitWebhook /\ [][NextWebhook]_vars

\* how many processQueue calls are followed while the statistics are read
MaxRunsStats == 2

\* the queue of SpecSingle with a dashboard reading its statistics
NextStats ==
    \/ \E e \in Enqueuers, payload \in Payloads : EnqueueCheck(e, payload)
    \/ \E e \in Enqueuers : EnqueueInsert(e)
    \/ \E p \in Consumers : ConsumersIdle /\ ProcessSelect(p) /\ CountRun(MaxRunsStats)
    \/ \E p \in Consumers : ProcessMark(p)
    \/ \E p \in Consumers : ProcessReturn(p)
    \/ \E p \in Consumers : ProcessSuccess(p)
    \/ \E p \in Consumers, err \in Errors : ProcessFailure(p, err)
    \/ \E p \in Consumers : ProcessLogFailure(p)
    \/ \E p \in Consumers, outcome \in AlertOutcomes : ProcessAlert(p, outcome)
    \/ Tick(MaxTime)
    \/ GetQueueStats

SpecStats == Init /\ [][NextStats]_vars

(***************************************************************************)
(* Properties                                                              *)
(***************************************************************************)
\* the rows of the job table that carry a job id
RowsWithJobId(jobId) ==
    {i \in RowIds(conversion_queue) : conversion_queue[i].job_id = jobId}

\* the failure records written for a row of the job table
FailuresOf(i) ==
    {k \in RowIds(conversion_failures) : conversion_failures[k].queue_id = i}

\* the processQueue calls that have a row in flight (sent, not yet answered)
InFlight(i) == {p \in Consumers : ppc[p] = "sending" /\ ploc[p].job.id = i}

\* the entries of a call's history with a given outcome
HandledTo(p, status) ==
    {k \in DOMAIN ploc[p].handled : ploc[p].handled[k].to = status}

\* C1: no job is in flight (being sent to the external API) in two
\* processQueue calls at the same time.
C1_NeverInFlightTwice ==
    \A i \in RowIds(conversion_queue) : Cardinality(InFlight(i)) <= 1

\* C2: a second enqueueConversion call, made after a first one returned, with
\* the same (brandId, externalOrderId), returns at once with the job id the
\* first call returned, and exactly one row carries that job id.
C2_SecondEnqueueSameJob ==
    [][ \A e1, e2 \in Enqueuers :
          ( /\ e1 # e2
            /\ epc[e1] = "done" /\ enqReturns[e1].status # Thrown
            /\ epc[e2] = "idle" /\ epc'[e2] # "idle"
            /\ eloc'[e2].payload = eloc[e1].payload
            /\ Truthy(eloc[e1].payload.externalOrderId) )
          => /\ epc'[e2] = "done"
             /\ enqReturns'[e2].jobId = enqReturns[e1].jobId
             /\ enqReturns'[e2].status # Thrown
             /\ Cardinality({i \in RowIds(conversion_queue') :
                    conversion_queue'[i].job_id = enqReturns[e1].jobId}) = 1 ]_vars

\* C2 witness: both webhooks carried the same order, the second was answered
\* with the job of the first.
C2_Witness ==
    /\ epc["hookA"] = "done" /\ epc["hookB"] = "done"
    /\ eloc["hookA"].payload = eloc["hookB"].payload
    /\ enqReturns["hookA"].message = "Queued"
    /\ enqReturns["hookB"].message = "Already queued"
    /\ enqReturns["hookA"].jobId = enqReturns["hookB"].jobId

\* C3: the job table never holds two rows with the same job id.
C3_UniqueJobId ==
    \A i, j \in RowIds(conversion_queue) :
        conversion_queue[i].job_id = conversion_queue[j].job_id => i = j

\* C3 witness: two webhooks raced on the same order, both passed the
\* existence check, and the table still holds one row for the job.
C3_Witness ==
    /\ \A e \in Enqueuers : epc[e] = "done"
    /\ eloc["hookA"].jobId = eloc["hookB"].jobId
    /\ \E e \in Enqueuers : enqReturns[e].status = Thrown
    /\ Cardinality(RowsWithJobId(eloc["hookA"].jobId)) = 1

\* C4: every enqueueConversion call returns normally, with the status of the
\* job that exists under its job id; none fails with an error.
C4_EnqueueNeverFails ==
    \A e \in Enqueuers :
        epc[e] = "done" =>
            /\ enqReturns[e].status # Thrown
            /\ \E i \in RowsWithJobId(enqReturns[e].jobId) : TRUE

\* C5: enqueueConversion on a job id that already exists changes no table,
\* inserts nothing, and returns the job's status with 'Already processed' for
\* completed and dead and 'Already queued' for pending, processing and failed.
C5_EnqueueExistingIsNoOp ==
    [][ \A e \in Enqueuers :
          ( /\ epc[e] = "idle" /\ epc'[e] # "idle"
            /\ RowsWithJobId(eloc'[e].jobId) # {} )
          => /\ epc'[e] = "done"
             /\ conversion_queue' = conversion_queue
             /\ conversion_failures' = conversion_failures
             /\ enqReturns'[e].jobId = eloc'[e].jobId
             /\ \A i \in RowsWithJobId(eloc'[e].jobId) :
                   /\ enqReturns'[e].status = conversion_queue[i].status
                   /\ enqReturns'[e].message =
                          IF conversion_queue[i].status \in {"completed", "dead"}
                          THEN "Already processed"
                          ELSE "Already queued" ]_vars

\* C5 witness: a webhook for an order whose job is dead was answered
\* 'Already processed'.
C5_Witness ==
    \E e \in Enqueuers :
        /\ epc[e] = "done"
        /\ enqReturns[e].status = "dead"
        /\ enqReturns[e].message = "Already processed"

\* C6: once a job is completed, no step changes any field of its row.
C6_CompletedImmutable ==
    [][ \A i \in RowIds(conversion_queue) :
          conversion_queue[i].status = "completed"
              => conversion_queue'[i] = conversion_queue[i] ]_vars

\* C7: a dead job is not picked up by processQueue; the only step that
\* changes the status of a dead job is the update of retryDeadJob, which
\* makes it pending.
C7_DeadIsTerminal ==
    [][ \A i \in RowIds(conversion_queue) :
          ( /\ conversion_queue[i].status = "dead"
            /\ conversion_queue'[i].status # "dead" )
          => /\ conversion_queue'[i].status = "pending"
             /\ \E r \in Operators :
                   rpc[r] = "update" /\ rpc'[r] = "done" /\ rloc[r].id = i ]_vars

\* C8: the batch a processQueue call selects holds at most batchSize jobs,
\* each of which, at selection time, is pending or failed, due
\* (next_retry_at <= now) and below its max_attempts; the call sends only the
\* jobs of that batch, so a job selected as failed is sent at or after its
\* next_retry_at.
C8_SelectsOnlyDueJobs ==
    [][ \A p \in Consumers :
          /\ (ppc[p] = "idle" /\ ppc'[p] = "loop") =>
                /\ Len(ploc'[p].jobs) <= BatchSize(p)
                /\ \A k \in DOMAIN ploc'[p].jobs :
                      LET row == conversion_queue[ploc'[p].jobs[k].id]
                      IN  /\ row.status \in {"pending", "failed"}
                          /\ row.next_retry_at <= now
                          /\ row.attempts < row.max_attempts
                          /\ ploc'[p].jobs[k].attempts = row.attempts
                /\ \A k, l \in DOMAIN ploc'[p].jobs :
                      ploc'[p].jobs[k].id = ploc'[p].jobs[l].id => k = l
          /\ (ppc[p] = "loop" /\ ppc'[p] = "sending") =>
                /\ ploc[p].jobs # <<>>
                /\ ploc'[p].job = Head(ploc[p].jobs)
                /\ ploc'[p].jobs = Tail(ploc[p].jobs)
          /\ (ppc[p] # "idle" /\ ppc'[p] # "idle" /\ ppc'[p] # "sending") =>
                ploc'[p].jobs = ploc[p].jobs ]_vars

\* C8 witness: a job that failed once and was rescheduled is being sent again,
\* after its retry time has come.
C8_Witness ==
    \E p \in Consumers :
        /\ ppc[p] = "sending"
        /\ ploc[p].job.attempts = 1
        /\ conversion_queue[ploc[p].job.id].error_code = "HTTP_503"
        /\ ploc[p].now >= BACKOFF_DELAYS[1]

\* the processQueue calls that made a row dead and have not yet written its
\* failure record
Logging(i) == {p \in Consumers : ppc[p] = "logFailure" /\ ploc[p].job.id = i}

\* C9: a job whose first delivery attempt fails with HTTP 400 is dead with
\* attempts = 1 from that moment: it is not failed, no retry is scheduled, no
\* further attempt is made, one failure record is written for it, and the
\* processQueue call that made the attempt counts it as dead.
C9_FatalShortCircuit ==
    \A i \in RowIds(conversion_queue) :
        (sent[i] # <<>> /\ sent[i][1] = "HTTP_400") =>
            LET row == conversion_queue[i]
            IN  /\ Len(sent[i]) = 1
                /\ row.status = "dead"
                /\ row.attempts = 1
                /\ row.next_retry_at <= row.last_attempted_at
                /\ Cardinality(FailuresOf(i)) =
                       requeues[i] + (IF Logging(i) = {} THEN 1 ELSE 0)
                /\ \A p \in Consumers :
                      (\E k \in DOMAIN ploc[p].handled : ploc[p].handled[k].id = i) =>
                          /\ \A k \in DOMAIN ploc[p].handled :
                                ploc[p].handled[k].id = i => ploc[p].handled[k].to = "dead"
                          /\ ppc[p] = "loop" =>
                                /\ ploc[p].results.dead = Cardinality(HandledTo(p, "dead"))
                                /\ ploc[p].results.dead >= 1
                                /\ ploc[p].results.failed = 0

\* C9 witness: the job is dead after one attempt answered 400, with one
\* failure record, and the call is about to return dead:1.
C9_Witness ==
    \E i \in RowIds(conversion_queue), p \in Consumers :
        /\ sent[i] = <<"HTTP_400">>
        /\ requeues[i] = 0
        /\ conversion_queue[i].status = "dead"
        /\ Cardinality(FailuresOf(i)) = 1
        /\ ppc[p] = "loop" /\ ploc[p].jobs = <<>>
        /\ ploc[p].results = [processed |-> 1, succeeded |-> 0, failed |-> 0, dead |-> 1]

\* all the deliveries made for a row since its creation were answered 503
AllUnavailable(i) == \A k \in DOMAIN sent[i] : sent[i][k] = "HTTP_503"

\* C10: a job whose deliveries all fail with HTTP 503 is failed after each of
\* its attempts 1 to 4 and dead after attempt 5, and once it is dead exactly
\* one failure record exists for it.
C10_RetryThenDead ==
    \A i \in RowIds(conversion_queue) :
        (sent[i] # <<>> /\ AllUnavailable(i) /\ requeues[i] = 0) =>
            LET row == conversion_queue[i]
                n   == Len(sent[i])
            IN  /\ n <= 5
                /\ row.attempts = n
                /\ n < 5 => /\ row.status \in {"failed", "processing"}
                            /\ row.status = "processing" => InFlight(i) # {}
                            /\ FailuresOf(i) = {}
                /\ n = 5 => /\ row.status = "dead"
                            /\ Cardinality(FailuresOf(i)) =
                                   IF Logging(i) = {} THEN 1 ELSE 0

\* C10 witness: five deliveries answered 503, the job is dead and has its one
\* failure record.
C10_Witness ==
    \E i \in RowIds(conversion_queue) :
        /\ Len(sent[i]) = 5 /\ AllUnavailable(i)
        /\ conversion_queue[i].status = "dead"
        /\ conversion_queue[i].attempts = 5
        /\ Cardinality(FailuresOf(i)) = 1

\* the step in which a processQueue call handles the answer to the delivery
\* of row i
Answered(p, i) ==
    /\ ppc[p] = "sending" /\ ploc[p].job.id = i
    /\ ppc'[p] # "sending"

\* the entry a call wrote last in its history
LastHandled(p) == ploc[p].handled[Len(ploc[p].handled)]

\* the retry policy: no HTTP status, 5xx, 429 and 408 are retryable, the other
\* 4xx are fatal, anything else is retryable
PolicyRetryable(http) ==
    \/ http = NoStatus
    \/ http >= 500
    \/ http \in {429, 408}
    \/ ~(http >= 400 /\ http < 500)

\* the error code recorded for an error: its own code, else HTTP_<status>,
\* else UNKNOWN
RecordedCode(err) ==
    IF err.code # Null THEN err.code
    ELSE IF err.status # NoStatus THEN "HTTP_" \o ToString(err.status)
    ELSE "UNKNOWN"

\* C11: when the delivery of a job fails with a retryable error and
\* attempts + 1 < max_attempts, the job becomes failed, its attempts grow by
\* exactly one, its next_retry_at is the time of the failure plus
\* BACKOFF_DELAYS[min(new attempts - 1, length - 1)], and the message and the
\* code of the error are recorded.
C11_RetryableFailureReschedules ==
    [][ \A p \in Consumers : \A i \in RowIds(conversion_queue) :
          ( /\ Answered(p, i)
            /\ LastHandled(p)'.to # "completed"
            /\ PolicyRetryable(LastHandled(p)'.http)
            /\ conversion_queue[i].attempts + 1 < conversion_queue[i].max_attempts )
          => LET row  == conversion_queue[i]
                 new  == conversion_queue'[i]
                 k    == IF new.attempts - 1 < Len(BACKOFF_DELAYS) - 1
                         THEN new.attempts - 1 ELSE Len(BACKOFF_DELAYS) - 1
             IN  /\ new.status = "failed"
                 /\ new.attempts = row.attempts + 1
                 /\ new.next_retry_at = now + BACKOFF_DELAYS[k + 1]
                 /\ \E err \in AllErrors :
                       /\ err.status = LastHandled(p)'.http
                       /\ new.last_error = err.message
                       /\ new.error_code = RecordedCode(err)
                 /\ new.job_id = row.job_id /\ new.payload = row.payload
                 /\ new.created_at = row.created_at
                 /\ new.completed_at = row.completed_at ]_vars

\* C11 witness: a job failed a second time, with a timeout, 60 seconds after
\* it was created, and is rescheduled 120 seconds later.
C11_Witness ==
    \E i \in RowIds(conversion_queue) :
        /\ conversion_queue[i].status = "failed"
        /\ conversion_queue[i].attempts = 2
        /\ conversion_queue[i].error_code = "ECONNABORTED"
        /\ conversion_queue[i].last_attempted_at = conversion_queue[i].created_at + 60
        /\ conversion_queue[i].next_retry_at = conversion_queue[i].created_at + 180

\* C12: when the delivery of a job succeeds, the job becomes completed, its
\* completed_at is set to the time of the success and its attempts grow by
\* exactly one; a call whose batch was that one job returns
\* {processed: 1, succeeded: 1, failed: 0, dead: 0}.
C12_SuccessCompletes ==
    [][ \A p \in Consumers : \A i \in RowIds(conversion_queue) :
          (Answered(p, i) /\ LastHandled(p)'.to = "completed")
          => LET row == conversion_queue[i]
                 new == conversion_queue'[i]
             IN  /\ new.status = "completed"
                 /\ new.completed_at = now /\ new.completed_at # NoTime
                 /\ new.attempts = row.attempts + 1
                 /\ new.job_id = row.job_id /\ new.payload = row.payload
                 /\ new.next_retry_at = row.next_retry_at
                 /\ new.last_error = row.last_error
                 /\ new.error_code = row.error_code
                 /\ (ploc'[p].jobs = <<>> /\ Len(ploc'[p].handled) = 1) =>
                        ploc'[p].results =
                            [processed |-> 1, succeeded |-> 1, failed |-> 0, dead |-> 0] ]_vars

\* C12 witness: a call that found one pending job delivered it and is about
\* to return processed 1, succeeded 1.
C12_Witness ==
    \E p \in Consumers : \E i \in RowIds(conversion_queue) :
        /\ ppc[p] = "loop" /\ ploc[p].jobs = <<>>
        /\ ploc[p].handled = <<Moved([id |-> i], "processing", "completed", 200)>>
        /\ ploc[p].results = [processed |-> 1, succeeded |-> 1, failed |-> 0, dead |-> 0]
        /\ conversion_queue[i].status = "completed"
        /\ conversion_queue[i].attempts = 1
        /\ conversion_queue[i].completed_at = now

RECURSIVE SumDelays(_)
\* BACKOFF_DELAYS[0] + ... + BACKOFF_DELAYS[k-1], clamped at the last entry
SumDelays(k) ==
    IF k = 0 THEN 0
    ELSE SumDelays(k - 1) +
         BACKOFF_DELAYS[IF k < Len(BACKOFF_DELAYS) THEN k ELSE Len(BACKOFF_DELAYS)]

\* the step in which row i is rescheduled after a failed delivery
Rescheduled(i) ==
    /\ \E p \in Consumers : Answered(p, i)
    /\ conversion_queue'[i].status = "failed"

\* C13, as stated: for a job that keeps failing with a retryable error, the
\* k-th next_retry_at minus created_at equals the sum of the first k backoff
\* delays, and each next_retry_at is later than the one before.
C13_BackoffEqualsSum ==
    [][ \A i \in RowIds(conversion_queue) :
          (Rescheduled(i) /\ requeues[i] = 0) =>
              /\ conversion_queue'[i].next_retry_at - conversion_queue[i].created_at
                     = SumDelays(conversion_queue'[i].attempts)
              /\ conversion_queue'[i].next_retry_at > conversion_queue[i].next_retry_at
      ]_vars

\* C13, amended: the k-th next_retry_at minus created_at is at least the sum
\* of the first k backoff delays, and equals it exactly when the k-th attempt
\* failed at created_at plus the sum of the first k-1 delays; each
\* next_retry_at is later than the one before.
C13_BackoffAtLeastSum ==
    [][ \A i \in RowIds(conversion_queue) :
          (Rescheduled(i) /\ requeues[i] = 0) =>
              LET row == conversion_queue[i]
                  new == conversion_queue'[i]
              IN  /\ new.next_retry_at - row.created_at >= SumDelays(new.attempts)
                  /\ (new.next_retry_at - row.created_at = SumDelays(new.attempts))
                        <=> (now = row.created_at + SumDelays(row.attempts))
                  /\ new.next_retry_at > row.next_retry_at
      ]_vars

\* C13 witness: the second attempt was made 30 seconds late, so the second
\* next_retry_at is 180 seconds after created_at and not 150.
C13_Witness ==
    \E i \in RowIds(conversion_queue) :
        /\ conversion_queue[i].status = "failed"
        /\ conversion_queue[i].attempts = 2
        /\ requeues[i] = 0
        /\ SumDelays(2) = 150
        /\ conversion_queue[i].next_retry_at = conversion_queue[i].created_at + 180

\* C14: every failed delivery is classified by the policy table: an error
\* with no HTTP status, with a status >= 500, with 429 or with 408 is
\* retryable (the job is rescheduled while attempts remain); any other 4xx is
\* fatal (the job is dead at once); anything else is retryable.
C14_ClassifiedByPolicy ==
    [][ \A p \in Consumers : \A i \in RowIds(conversion_queue) :
          (Answered(p, i) /\ LastHandled(p)'.to # "completed") =>
              LET http      == LastHandled(p)'.http
                  remaining == conversion_queue[i].attempts + 1 < MAX_ATTEMPTS
                  retried   == conversion_queue'[i].status = "failed"
                  dead      == conversion_queue'[i].status = "dead"
              IN  /\ retried \/ dead
                  /\ http = NoStatus => (retried <=> remaining)
                  /\ (http # NoStatus /\ http >= 500) => (retried <=> remaining)
                  /\ http = 429 => (retried <=> remaining)
                  /\ http = 408 => (retried <=> remaining)
                  /\ (http >= 400 /\ http < 500 /\ http # 429 /\ http # 408) => dead
                  /\ (http # NoStatus /\ http < 400) => (retried <=> remaining) ]_vars

\* C14 witness: a delivery answered 429 was retried, and the retry, answered
\* 404, made the job dead.
C14_Witness ==
    \E i \in RowIds(conversion_queue) :
        /\ sent[i] = <<"HTTP_429", "HTTP_404">>
        /\ conversion_queue[i].status = "dead"
        /\ conversion_queue[i].attempts = 2

\* C15: every transition of a job into dead is followed by exactly one
\* failure record for that job, and a failure record is written only for such
\* a transition, also when processQueue calls overlap; the table of failure
\* records only grows: no step changes or removes a record.
C15_OneRecordPerDeath ==
    [][ /\ \/ conversion_failures' = conversion_failures
           \/ /\ Len(conversion_failures') = Len(conversion_failures) + 1
              /\ SubSeq(conversion_failures', 1, Len(conversion_failures))
                     = conversion_failures
        /\ \A i \in RowIds(conversion_queue) :
              /\ ( /\ conversion_queue[i].status # "dead"
                    /\ conversion_queue'[i].status = "dead" )
                  => \E p \in Consumers :
                        /\ Answered(p, i)
                        /\ ppc'[p] = "logFailure" /\ ploc'[p].job.id = i
              /\ ( /\ Len(conversion_failures') = Len(conversion_failures) + 1
                    /\ conversion_failures'[Len(conversion_failures')].queue_id = i )
                  => \E p \in Consumers :
                        /\ ppc[p] = "logFailure" /\ ppc'[p] = "alert"
                        /\ LastHandled(p).id = i
                        /\ LastHandled(p).to = "dead"
                        /\ LastHandled(p).from # "dead" ]_vars

\* C16: retryDeadJob(jobId) on a job that is dead makes it pending with
\* attempts 0, next_retry_at now and no last_error and error_code, and
\* returns success; on a job id that is missing or whose job is pending,
\* processing, failed or completed it returns a failure and leaves the job
\* table as it is.
C16_RetryDeadJobContract ==
    [][ \A r \in Operators :
          /\ (rpc[r] = "idle" /\ rpc'[r] # "idle") =>
                LET dead == {i \in RowsWithJobId(rloc'[r].jobId) :
                                conversion_queue[i].status = "dead"}
                IN  /\ conversion_queue' = conversion_queue
                    /\ dead = {} => /\ rpc'[r] = "done"
                                    /\ retryReturns'[r].success = FALSE
                    /\ dead # {} => /\ rpc'[r] = "update"
                                    /\ rloc'[r].id \in dead
          /\ (rpc[r] = "update" /\ rpc'[r] # "update") =>
                LET i   == rloc[r].id
                    row == conversion_queue[i]
                    new == conversion_queue'[i]
                IN  /\ rpc'[r] = "done"
                    /\ retryReturns'[r].success = TRUE
                    /\ new.status = "pending"
                    /\ new.attempts = 0
                    /\ new.next_retry_at = now
                    /\ new.last_error = Null /\ new.error_code = Null
                    /\ new.job_id = row.job_id /\ new.payload = row.payload
                    /\ new.created_at = row.created_at
                    /\ \A k \in RowIds(conversion_queue) :
                          k # i => conversion_queue'[k] = conversion_queue[k]
          /\ (rpc[r] = "done" /\ rpc'[r] # "done") =>
                conversion_queue' = conversion_queue ]_vars

\* C16 witness: a job that died of a 400 was requeued by the operator and
\* is pending again with attempts 0 and no error.
C16_Witness ==
    \E r \in Operators : \E i \in RowIds(conversion_queue) :
        /\ rpc[r] = "done" /\ retryReturns[r].success
        /\ rloc[r].id = i
        /\ Cardinality(FailuresOf(i)) = 1
        /\ conversion_queue[i].status = "pending"
        /\ conversion_queue[i].attempts = 0
        /\ conversion_queue[i].last_error = Null
        /\ conversion_queue[i].last_attempted_at # NoTime

\* C17: the update of retryDeadJob is applied to a job that is dead at the
\* moment of the write; whatever retryDeadJob and processQueue calls run at
\* the same time, it never resets a job that is processing, failed or
\* completed.
C17_RetryNeverResetsLiveJob ==
    [][ \A r \in Operators :
          (rpc[r] = "update" /\ rpc'[r] # "update") =>
              conversion_queue[rloc[r].id].status \notin
                  {"processing", "failed", "completed"} ]_vars

\* C18: whatever the answer to a delivery (success, an error with any HTTP
\* status, an error with none), processQueue handles it and goes on: the
\* job is then completed, failed or dead, a job is processing only while a
\* call has its delivery in flight, and a call ends only by returning its
\* counts once its batch is done.
C18_EveryOutcomeHandled ==
    [][ /\ \A p \in Consumers :
              /\ ppc[p] = "sending" =>
                    /\ ENABLED ProcessSuccess(p)
                    /\ \A err \in AllErrors : ENABLED ProcessFailure(p, err)
              /\ \A i \in RowIds(conversion_queue) :
                    Answered(p, i) =>
                        /\ conversion_queue'[i].status \in {"completed", "failed", "dead"}
                        /\ ppc'[p] \in {"loop", "logFailure"}
              /\ (ppc[p] # "idle" /\ ppc'[p] = "idle") =>
                    (ppc[p] = "loop" /\ ploc[p].jobs = <<>>)
        /\ \A i \in RowIds(conversion_queue') :
              conversion_queue'[i].status = "processing" =>
                  \E p \in Consumers : ppc'[p] = "sending" /\ ploc'[p].job.id = i
      ]_vars

\* C18 witness: a delivery that got no answer at all was handled: the job is
\* failed and the call is back at the head of its loop.
C18_Witness ==
    \E p \in Consumers : \E i \in RowIds(conversion_queue) :
        /\ ppc[p] = "loop" /\ ploc[p].handled # <<>>
        /\ LastHandled(p) = Moved([id |-> i], "processing", "failed", NoStatus)
        /\ conversion_queue[i].status = "failed"
        /\ conversion_queue[i].error_code = "UNKNOWN"

\* C19: whatever becomes of the alert (mail sent, transport not configured,
\* transport error), the alert step changes no job and no failure record,
\* and processQueue goes on with the remaining jobs of its batch and counts
\* the job as dead; it does not fail.
C19_AlertFailureIsHarmless ==
    [][ \A p \in Consumers :
          (ppc[p] = "alert" /\ ppc'[p] # "alert") =>
              /\ conversion_queue' = conversion_queue
              /\ conversion_failures' = conversion_failures
              /\ ppc'[p] = "loop"
              /\ ploc'[p].jobs = ploc[p].jobs
              /\ ploc'[p].handled = ploc[p].handled
              /\ ploc'[p].results = [ploc[p].results EXCEPT !.dead = @ + 1] ]_vars

\* C19 witness: the first job of a batch died and its alert mail was not
\* sent; the call went on and delivered the second job.
C19_Witness ==
    \E p \in Consumers :
        /\ ppc[p] = "loop"
        /\ Len(ploc[p].handled) = 2
        /\ ploc[p].handled[1].to = "dead"
        /\ ploc[p].handled[2].to = "completed"
        /\ ploc[p].results = [processed |-> 2, succeeded |-> 1, failed |-> 0, dead |-> 1]
        /\ alerts = <<>>

C21_AttemptsCountDeliveries ==
    \A i \in RowIds(conversion_queue) :
        LET row == conversion_queue[i]
        IN  /\ row.attempts = Len(sent[i])
            /\ row.attempts <= row.max_attempts
            /\ (Len(sent[i]) >= row.max_attempts /\ sent[i][Len(sent[i])] # "ok")
                   => row.status = "dead"

(***************************************************************************)
(* Properties of attribution                                               *)
(***************************************************************************)
\* a session that has not expired at time t and carries an affiliate
Attributable(row, t) == row.expires_at.at > t /\ row.affiliate_id # Null

\* the sessions of the order's sessionId that can be credited at time t
RuleSession(order, t) ==
    IF Truthy(order.sessionId)
    THEN {i \in RowIds(visitor_sessions) :
             /\ visitor_sessions[i].session_id = order.sessionId
             /\ Attributable(visitor_sessions[i], t)}
    ELSE {}

\* the most recently created session of the order's visitor, on the order's
\* site when it names one, that can be credited at time t
RuleVisitor(order, t) ==
    IF Truthy(order.visitorId)
    THEN MostRecent(visitor_sessions,
             {i \in RowIds(visitor_sessions) :
                 /\ visitor_sessions[i].visitor_id = order.visitorId
                 /\ Truthy(order.siteId) => visitor_sessions[i].site_id = order.siteId
                 /\ Attributable(visitor_sessions[i], t)})
    ELSE {}

\* the most recent session of the order's site, created in the 24 hours
\* before t, that can be credited at time t
RuleSite(order, t) ==
    IF Truthy(order.siteId)
    THEN MostRecent(visitor_sessions,
             {i \in RowIds(visitor_sessions) :
                 /\ visitor_sessions[i].site_id = order.siteId
                 /\ Attributable(visitor_sessions[i], t)
                 /\ visitor_sessions[i].created_at.at > t - SITE_RECENT_WINDOW})
    ELSE {}

\* the newest stored order with an affiliate among the 10 most recent that
\* hold the customer's e-mail
RuleHistoric(order) ==
    IF Truthy(order.customerEmail)
    THEN HistoricOrder(order_webhooks, order) \ {NoAttribution}
    ELSE {}

\* the affiliate and the source tag of a session rule that hits
Credit(ids, source) ==
    {[affiliateId |-> visitor_sessions[i].affiliate_id, source |-> source] : i \in ids}

\* the answers the waterfall allows for an order without an affiliate of its
\* own, at time t
Waterfall(order, t) ==
    IF RuleSession(order, t) # {} THEN Credit(RuleSession(order, t), "session")
    ELSE IF RuleVisitor(order, t) # {} THEN Credit(RuleVisitor(order, t), "visitor_id")
    ELSE IF RuleSite(order, t) # {} THEN Credit(RuleSite(order, t), "site_recent")
    ELSE IF RuleHistoric(order) # {}
    THEN {[affiliateId |-> r.affiliateId, source |-> r.source] : r \in RuleHistoric(order)}
    ELSE {[affiliateId |-> Null, source |-> Null]}

\* C22: resolveAffiliate on an order that carries an affiliateId of its own
\* returns that affiliateId, with the order's campaignId and the source
\* order_direct, whatever sessions and stored orders there are
C22_DirectAffiliateWins ==
    (resolved.done /\ Truthy(resolved.order.affiliateId)) =>
        resolved.result = [ affiliateId |-> resolved.order.affiliateId,
                            campaignId  |-> resolved.order.campaignId,
                            source      |-> "order_direct" ]

\* C22 witness: an order with an affiliate of its own was resolved while the
\* session it names was live and carried another affiliate.
C22_Witness ==
    /\ resolved.done
    /\ resolved.order.affiliateId = "AFF9"
    /\ resolved.result.source = "order_direct"
    /\ \E i \in BySessionId(client, visitor_sessions, resolved.order, resolved.at) :
          /\ visitor_sessions[i].affiliate_id = "AFF1"
          /\ Attributable(visitor_sessions[i], resolved.at)
    /\ RuleHistoric(resolved.order) # {}

\* C23: for an order without an affiliateId of its own, resolveAffiliate
\* returns the result of the first rule that hits, in the order session,
\* visitor_id, site_recent, historic_order, and null only when none hits
C23_FirstRuleThatHits ==
    (resolved.done /\ ~Truthy(resolved.order.affiliateId)) =>
        [affiliateId |-> resolved.result.affiliateId, source |-> resolved.result.source]
            \in Waterfall(resolved.order, resolved.at)

\* the rows the three session lookups of findAffiliateByVisitor can return
\* for the keys q at time t
LookedUp(q, t) ==
    BySessionId(client, visitor_sessions, q, t)
        \cup ByVisitorId(client, visitor_sessions, q, t)
        \cup BySiteId(client, visitor_sessions, q, t)

\* C24: no session lookup returns a session whose expires_at is not after the
\* time of the lookup or whose affiliate_id is null; a session rule whose
\* sessions are expired is skipped and the next rule is tried
C24_ExpiredSessionsSkipped ==
    /\ \A q \in ResolveOrders : \A i \in LookedUp(q, now) :
           Attributable(visitor_sessions[i], now)
    /\ (resolved.done /\ resolved.result.source \in {"session", "visitor_id", "site_recent"})
           => \E i \in RowIds(visitor_sessions) :
                  /\ visitor_sessions[i].affiliate_id = resolved.result.affiliateId
                  /\ Attributable(visitor_sessions[i], resolved.at)
    /\ (resolved.done /\ ~Truthy(resolved.order.affiliateId)
            /\ RuleSession(resolved.order, resolved.at) = {})
           => /\ resolved.result.source # "session"
              /\ ByVisitorId(client, visitor_sessions, resolved.order, resolved.at) # {}
                     => resolved.result.source = "visitor_id"

\* C24 witness: the session the order names carries an affiliate and has
\* expired; the lookup went on to the visitor's sessions and found a live one.
C24_Witness ==
    /\ resolved.done
    /\ \E i \in RowIds(visitor_sessions) :
          /\ visitor_sessions[i].session_id = resolved.order.sessionId
          /\ visitor_sessions[i].affiliate_id # Null
          /\ visitor_sessions[i].expires_at.at <= resolved.at
    /\ RuleSession(resolved.order, resolved.at) = {}
    /\ resolved.result.source = "visitor_id"

\* C29: the affiliate_id and the campaign_id a session has are not replaced:
\* once a session row holds a value there, no request changes it
C29_FirstAttributionStays ==
    [][\A i \in RowIds(visitor_sessions) :
           /\ Truthy(visitor_sessions[i].affiliate_id)
                  => visitor_sessions'[i].affiliate_id = visitor_sessions[i].affiliate_id
           /\ Truthy(visitor_sessions[i].campaign_id)
                  => visitor_sessions'[i].campaign_id = visitor_sessions[i].campaign_id]_vars

(***************************************************************************)
(* Properties of the parser                                                *)
(***************************************************************************)
\* the values of the entries of the buyer custom-fields array whose name is
\* one of names, in the order of the array
RECURSIVE Offered(_, _)
Offered(fields, names) ==
    IF fields = <<>> THEN <<>>
    ELSE (IF Head(fields).name \in names THEN <<Head(fields).value>> ELSE <<>>)
             \o Offered(Tail(fields), names)

\* what an order offers as affiliateId, from the highest priority down: the
\* buyer note, the custom-fields map, the channel-info block, the buyer
\* custom-fields array
AffiliateSources(b) ==
    << RefMatch(b.buyerNote),
       b.customFields["aid"], b.customFields["affiliateId"],
       b.customFields["affiliate_id"], b.customFields["ref"],
       b.channelInfo.affiliateId, b.channelInfo.externalOrderId >>
    \o Offered(b.buyerCustomFields, AffiliateNames)

\* what an order offers as campaignId
CampaignSources(b) ==
    << b.customFields["cid"], b.customFields["campaignId"],
       b.customFields["campaign_id"] >>
    \o Offered(b.buyerCustomFields, CampaignNames)

\* what an order offers as sessionId
SessionSources(b) ==
    << b.customFields["sessionId"], b.customFields["session_id"],
       b.customFields["sid"] >>
    \o Offered(b.buyerCustomFields, SessionNames)

\* the first value of xs that is none of absent, null when there is none
RECURSIVE FirstPresent(_, _)
FirstPresent(xs, absent) ==
    IF xs = <<>> THEN Null
    ELSE IF Head(xs) \notin absent THEN Head(xs)
    ELSE FirstPresent(Tail(xs), absent)

\* the parser's value for a field is the first offered value that is none of
\* absent, and a value of absent when nothing else is offered
Resolves(value, xs, absent) ==
    IF FirstPresent(xs, absent) = Null
    THEN value \in absent
    ELSE value = FirstPresent(xs, absent)

\* C30 as stated: each of affiliateId, campaignId and sessionId is the first
\* non-null value over the sources in their priority
C30_FirstNonNull ==
    parsed.done =>
        /\ Resolves(parsed.order.affiliateId, AffiliateSources(body), {Null, Undefined})
        /\ Resolves(parsed.order.campaignId, CampaignSources(body), {Null, Undefined})
        /\ Resolves(parsed.order.sessionId, SessionSources(body), {Null, Undefined})

\* C30: each of affiliateId, campaignId and sessionId is, independently of the
\* other two, the first value that is neither null nor the empty string over
\* the sources in the priority buyer note (affiliate only), custom-fields
\* map, channel-info block (affiliate only), buyer custom-fields array; a
\* source of lower priority never replaces such a value
C30_FirstNonEmpty ==
    parsed.done =>
        /\ Resolves(parsed.order.affiliateId, AffiliateSources(body), {Null, Undefined, ""})
        /\ Resolves(parsed.order.campaignId, CampaignSources(body), {Null, Undefined, ""})
        /\ Resolves(parsed.order.sessionId, SessionSources(body), {Null, Undefined, ""})

\* C30 witness: the note, the custom-fields map and the channel-info block
\* all name an affiliate and the note wins; the campaign comes from the map
\* and the session from the buyer custom-fields array.
C30_Witness ==
    /\ parsed.done
    /\ parsed.order.affiliateId = "AFF-1"
    /\ body.customFields["aid"] = "cf_aid"
    /\ body.channelInfo.affiliateId = "ch_affiliateId"
    /\ parsed.order.campaignId = "cf_cid"
    /\ parsed.order.sessionId = "bf1"

(***************************************************************************)
(* Properties of the order webhook                                         *)
(***************************************************************************)
\* the request h was a paid order and resolveAffiliate found nobody to
\* credit for it
Unattributed(h) ==
    /\ hpc[h] = "done"
    /\ responses[h].status # 401
    /\ IsPaidEvent(hloc[h].parsedOrder.eventType)
    /\ ~Truthy(hloc[h].attribution.affiliateId)

\* C25: a paid order for which resolveAffiliate yields no attribution is
\* acknowledged with a success response and enqueueConversion is not called
\* for it; every call of enqueueConversion, and so every job, comes from a
\* request with a resolved affiliate
C25_UnattributedOrderNotQueued ==
    /\ \A h \in Enqueuers :
           Unattributed(h) => /\ responses[h] = SkippedResponse("no_affiliate")
                              /\ responses[h].status = 200
                              /\ epc[h] = "idle"
                              /\ enqReturns[h] = NoReturn
    /\ \A h \in Enqueuers :
           epc[h] # "idle" => /\ Truthy(hloc[h].attribution.affiliateId)
                              /\ eloc[h].payload.affiliateId = hloc[h].attribution.affiliateId
    /\ Len(conversion_queue) <= Cardinality({h \in Enqueuers : epc[h] = "done"})

\* C25 witness: of two paid orders one was attributed and queued, the other
\* was not attributed, was acknowledged and left no job.
C25_Witness ==
    /\ Unattributed("hookA")
    /\ responses["hookA"].reason = "no_affiliate"
    /\ responses["hookB"].queued
    /\ Len(conversion_queue) = 1

\* the request h has been answered after its enqueueConversion returned
Acknowledged(h) ==
    /\ hpc[h] = "done"
    /\ epc[h] = "done"
    /\ enqReturns[h].status # Thrown

\* C26: once enqueueConversion has returned for an attributed paid order,
\* with a new job or with an existing one, the webhook is answered success,
\* and nothing that happens to the delivery afterwards changes a response
\* that was sent
C26_ResponseIndependentOfDelivery ==
    [][/\ \A h \in Enqueuers :
              Acknowledged(h)' => /\ responses'[h].status = 200
                              /\ responses'[h].ok
                              /\ ~responses'[h].skipped
                              /\ responses'[h].affiliateId = hloc'[h].attribution.affiliateId
                              /\ responses'[h].queued = (enqReturns'[h].status = "pending")
       /\ \A h \in Enqueuers :
              responses[h] # NoResponse => responses'[h] = responses[h]]_vars

\* C26 witness: the first webhook was answered success with a new job, the
\* inline delivery failed for good afterwards, and the second webhook of the
\* same order was answered success with the job that existed.
C26_Witness ==
    /\ Acknowledged("hookA") /\ responses["hookA"].status = 200 /\ responses["hookA"].queued
    /\ Acknowledged("hookB") /\ responses["hookB"].status = 200 /\ ~responses["hookB"].queued
    /\ Len(conversion_queue) = 1
    /\ conversion_queue[1].status = "dead"
    /\ enqReturns["hookB"].status = "dead"

(***************************************************************************)
(* Properties of the counters                                              *)
(***************************************************************************)
\* the sum of the counts f gives for the statuses of S
RECURSIVE SumCounts(_, _)
SumCounts(f, S) ==
    IF S = {} THEN 0
    ELSE LET s == CHOOSE x \in S : TRUE
         IN  f[s] + SumCounts(f, S \ {s})

\* C28: a getQueueStats call changes no job and no failure record; the count
\* it returns for a status is the number of jobs in that status (a status
\* without an entry has no job), and the counts sum to the number of jobs
C28_StatsReadOnly ==
    [][stats' # stats =>
          /\ conversion_queue' = conversion_queue
          /\ conversion_failures' = conversion_failures
          /\ DOMAIN stats'.queue \subseteq Statuses
          /\ \A s \in Statuses :
                 Cardinality({i \in RowIds(conversion_queue) :
                                 conversion_queue[i].status = s})
                     = IF s \in DOMAIN stats'.queue THEN stats'.queue[s] ELSE 0
          /\ SumCounts(stats'.queue, DOMAIN stats'.queue) = Len(conversion_queue)]_vars

\* C28 witness: getQueueStats has counted two jobs, one of them in the hands
\* of a processQueue call, and one failure record.
C28_Witness ==
    /\ stats.called
    /\ Len(conversion_queue) = 2
    /\ "processing" \in DOMAIN stats.queue
    /\ "dead" \in DOMAIN stats.queue
    /\ stats.failures24h = 1

\* the jobs of the history of a call that the call moved to the status to
MovedTo(handled, to) ==
    Cardinality({k \in DOMAIN handled : handled[k].to = to})

Absent == [kind |-> "undefined", val |-> Null]

JsonNull == [kind |-> "null", val |-> Null]

Str(s) == [kind |-> "string", val |-> s]

Num(n) == [kind |-> "number", val |-> n]

Obj(fields) == [kind |-> "object", val |-> fields]

Arr(items) == [kind |-> "array", val |-> items]

\* v || ... : what JavaScript takes for true
TruthyValue(v) ==
    /\ v.kind \notin {"undefined", "null"}
    /\ ~(v.kind = "string" /\ v.val = "")
    /\ ~(v.kind = "number" /\ v.val = 0)

\* v.match(...) and v?.match(...): only a string has the method; calling it
\* on another value that is not null or undefined raises a TypeError
MatchRaises(v) == v.kind \notin {"undefined", "null", "string"}

\* item.productId, field.name: reading a property of null or undefined
\* raises a TypeError
PropertyRaises(v) == v.kind \in {"undefined", "null"}

\* body.data?.order || body.order || body
OrderBlock(b) ==
    IF TruthyValue(b.dataOrder) THEN b.dataOrder.val
    ELSE IF TruthyValue(b.order) THEN b.order.val
    ELSE b.top

\* buyerNote.match(...) of the first truthy note, '' when there is none
NoteRaises(order) ==
    TruthyValue(order.buyerNote) /\ MatchRaises(order.buyerNote)

\* the loop over order.buyerInfo?.customFields || [] when that is an array
BuyerFieldsRaise(order) ==
    /\ order.buyerCustomFields.kind = "array"
    /\ \E i \in DOMAIN order.buyerCustomFields.val :
          PropertyRaises(order.buyerCustomFields.val[i])

\* (order.lineItems || ... || []).map(item => ...)
LineItemsRaise(order) ==
    /\ TruthyValue(order.lineItems)
    /\ \/ order.lineItems.kind # "array"
       \/ \E i \in DOMAIN order.lineItems.val : PropertyRaises(order.lineItems.val[i])

\* order.siteId || ... || order.channelInfo?.externalOrderUrl?.match(...)
SiteRaises(order) ==
    /\ ~TruthyValue(order.siteId)
    /\ MatchRaises(order.externalOrderUrl)

\* one product of the result: parseFloat(item.price || 0), parseInt(item.quantity || 1)
Product(item) ==
    [ price    |-> IF item.kind = "object" /\ TruthyValue(item.val.price)
                   THEN item.val.price.val ELSE 0,
      quantity |-> IF item.kind = "object" /\ TruthyValue(item.val.quantity)
                   THEN item.val.quantity.val ELSE 1 ]

\* parseWixOrderPayload(body) on a tree: whether it raises and, when it
\* returns, the fields that have a default
ParseTree(b) ==
    LET order == OrderBlock(b)
    IN  IF NoteRaises(order) \/ BuyerFieldsRaise(order) \/ LineItemsRaise(order)
               \/ SiteRaises(order)
        THEN [ thrown |-> TRUE, currency |-> Null, eventType |-> Null,
               products |-> <<>> ]
        ELSE [ thrown    |-> FALSE,
               currency  |-> IF TruthyValue(order.currency)
                             THEN order.currency.val ELSE "USD",
               eventType |-> IF TruthyValue(b.eventType)
                             THEN b.eventType.val ELSE "OrderPaid",
               products  |-> IF TruthyValue(order.lineItems)
                             THEN [i \in DOMAIN order.lineItems.val |->
                                      Product(order.lineItems.val[i])]
                             ELSE <<>> ]

\* an order block none of whose fields is there
AbsentOrder ==
    [ buyerNote |-> Absent, lineItems |-> Absent, buyerCustomFields |-> Absent,
      externalOrderUrl |-> Absent, siteId |-> Absent, currency |-> Absent ]

\* line items: with and without price and quantity
Items ==
    { Obj([price |-> Absent, quantity |-> Absent]),
      Obj([price |-> Num(12), quantity |-> Num(3)]) }

\* the order blocks of the model: every field absent, null, of the type the
\* parser expects, or of another type
OrderBlocks ==
    [ buyerNote : {Absent, JsonNull, Str(""), Str("ref=AFF-1"), Num(7), Obj(<<>>)},
      lineItems : {Absent, JsonNull, Obj(<<>>), Str("none"), Arr(<<>>), Arr(<<JsonNull>>)}
                      \cup {Arr(<<i>>) : i \in Items},
      buyerCustomFields : {Absent, Obj(<<>>), Arr(<<>>), Arr(<<JsonNull>>),
                           Arr(<<Obj([name |-> "aid", value |-> "bf1"])>>)},
      externalOrderUrl : {Absent, Str("https://shop/abc-1/"), Num(7)},
      siteId : {Absent, Str("site1")},
      currency : {Absent, Str("EUR")} ]

\* the request bodies: the order under data.order, under order, or the body
\* itself
Trees ==
    { [dataOrder |-> Obj(o), order |-> Absent, top |-> AbsentOrder, eventType |-> ev] :
        o \in OrderBlocks, ev \in {Absent, Str("OrderCreated")} }
    \cup { [dataOrder |-> Absent, order |-> Absent, top |-> o, eventType |-> Absent] :
             o \in OrderBlocks }

\* parseWixOrderPayload(body) for a tree
ParseAny ==
    /\ ~parsed.done
    /\ parsed' = [done |-> TRUE, order |-> ParseTree(body)]
    /\ UNCHANGED <<now, conversion_queue, conversion_failures, alerts, uuids,
                   epc, eloc, enqReturns, ppc, ploc,
                   rpc, rloc, retryReturns, sent, requeues, retryCalls, runs>>
    /\ UNCHANGED <<client, visitor_sessions, order_webhooks, tracked, resolved,
                   body, hpc, hloc, responses, stats>>

InitTrees ==
    /\ InitQueue
    /\ client = "sqlite3"
    /\ visitor_sessions = <<>>
    /\ order_webhooks = <<>>
    /\ tracked = 0
    /\ resolved = NoResolve
    /\ body \in Trees
    /\ parsed = NotParsed
    /\ hpc = [h \in Enqueuers |-> "idle"]
    /\ hloc = [h \in Enqueuers |-> NoRequest]
    /\ responses = [h \in Enqueuers |-> NoResponse]
    /\ stats = NoStats

NextTrees == ParseAny

SpecTrees == InitTrees /\ [][NextTrees]_vars

\* C31: parseWixOrderPayload raises for no input tree; a field that is
\* missing or of another type than expected gives null or the default
\* (currency USD, eventType OrderPaid, price 0, quantity 1)
C31_ParserNeverThrows ==
    parsed.done =>
        /\ ~parsed.order.thrown
        /\ ~TruthyValue(OrderBlock(body).currency) => parsed.order.currency = "USD"
        /\ ~TruthyValue(body.eventType) => parsed.order.eventType = "OrderPaid"
        /\ \A i \in DOMAIN parsed.order.products :
               LET item == OrderBlock(body).lineItems.val[i]
               IN  /\ ~TruthyValue(item.val.price) => parsed.order.products[i].price = 0
                   /\ ~TruthyValue(item.val.quantity) => parsed.order.products[i].quantity = 1

(***************************************************************************)
(* An order from the request body to its attribution                       *)
(***************************************************************************)
\* the buyer note "ref=AFF123,cid=CAMP456"
NoteRefCid ==
    <<"r", "e", "f", "=", "A", "F", "F", "1", "2", "3", ",",
      "c", "i", "d", "=", "C", "A", "M", "P", "4", "5", "6">>

\* orders of a shop with a buyer note and a custom-fields map
OrderBodies(maxKeys) ==
    { [EmptyBody EXCEPT !.id = "order-001", !.siteId = "site1",
                        !.buyerNote = n, !.customFields = cf] :
        n \in Notes \cup {NoteRefCid}, cf \in CustomMaps(maxKeys) }

InitOrder ==
    /\ InitQueue
    /\ client \in Clients
    /\ visitor_sessions \in WebhookSessions(client)
    /\ order_webhooks = <<>>
    /\ tracked = 0
    /\ resolved = NoResolve
    /\ body \in OrderBodies(MaxCustomKeys)
    /\ parsed = NotParsed
    /\ hpc = [h \in Enqueuers |-> "idle"]
    /\ hloc = [h \in Enqueuers |-> NoRequest]
    /\ responses = [h \in Enqueuers |-> NoResponse]
    /\ stats = NoStats

\* the order is parsed, then resolved
NextOrder ==
    \/ Parse
    \/ parsed.done /\ Resolve(parsed.order)

SpecOrder == InitOrder /\ [][NextOrder]_vars

\* the order has the note "ref=AFF123,cid=CAMP456" and no other attribution
\* data, and was resolved against an empty session store
NoteOnlyResolved ==
    /\ resolved.done
    /\ body.buyerNote = NoteRefCid
    /\ body.customFields = EmptyBody.customFields
    /\ body.channelInfo = EmptyBody.channelInfo
    /\ body.buyerCustomFields = <<>>
    /\ visitor_sessions = <<>>

EnqueuePayloads ==
    [brandId : {"123", Null, Undefined}, externalOrderId : {"order-001", Null, Undefined}]

\* two webhooks enqueue such payloads while processQueue runs, one call at
\* a time
NextEnqueue ==
    \/ \E e \in Enqueuers, payload \in EnqueuePayloads : EnqueueCheck(e, payload)
    \/ \E e \in Enqueuers : EnqueueInsert(e)
    \/ \E p \in Consumers : ConsumersIdle /\ ProcessSelect(p) /\ CountRun(MaxRunsStats)
    \/ \E p \in Consumers : ProcessMark(p)
    \/ \E p \in Consumers : ProcessReturn(p)
    \/ \E p \in Consumers : ProcessSuccess(p)
    \/ \E p \in Consumers, err \in Errors : ProcessFailure(p, err)
    \/ \E p \in Consumers : ProcessLogFailure(p)
    \/ \E p \in Consumers, outcome \in AlertOutcomes : ProcessAlert(p, outcome)
    \/ Tick(MaxTime)

SpecEnqueue == Init /\ [][NextEnqueue]_vars

\* the job id the statement gives a payload when uuid is the next random
\* value: built from brandId and externalOrderId when both are there
StatedJobId(payload, uuid) ==
    IF Truthy(payload.brandId) /\ Truthy(payload.externalOrderId)
    THEN "conv_" \o payload.brandId \o "_" \o payload.externalOrderId
    ELSE "conv_" \o uuid

\* C33: enqueueConversion uses the id conv_<brandId>_<externalOrderId>
\* exactly when the payload has both, and a fresh random id otherwise; the job
\* it inserts is pending with attempts 0 and next_retry_at now, and so is
\* eligible for the next processQueue
C33_JobIdAndNewJob ==
    [][\A e \in Enqueuers :
          /\ (epc[e] = "idle" /\ epc'[e] # "idle")
                 => eloc'[e].jobId = StatedJobId(eloc'[e].payload, RandomUUID(uuids + 1))
          /\ (epc[e] = "insert" /\ epc'[e] = "done"
                 /\ Len(conversion_queue') = Len(conversion_queue) + 1)
                 => LET row == conversion_queue'[Len(conversion_queue')]
                    IN  /\ row.job_id = eloc[e].jobId
                        /\ row.status = "pending"
                        /\ row.attempts = 0
                        /\ row.next_retry_at = now
                        /\ Eligible(row, now')]_vars

(***************************************************************************)
(* Properties of the selection                                             *)
(***************************************************************************)
\* the jobs a processQueue call starting at time t may select
Due(t) == {i \in RowIds(conversion_queue) : Eligible(conversion_queue[i], t)}

DistinctTimes(tbl) ==
    \A i, j \in RowIds(tbl) : i # j => tbl[i].created_at.at # tbl[j].created_at.at

\* no two sessions have the same session id
DistinctSessionIds(tbl) ==
    \A i, j \in RowIds(tbl) : i # j => tbl[i].session_id # tbl[j].session_id

\* the tables leave the database no choice in what it returns first
NoTies ==
    /\ DistinctTimes(visitor_sessions)
    /\ DistinctSessionIds(visitor_sessions)
    /\ DistinctTimes(order_webhooks)

\* the step is a call of resolveAffiliate
Resolving == resolved' # resolved

\* the call wrote to no table
WroteNothing ==
    UNCHANGED <<visitor_sessions, order_webhooks, conversion_queue, conversion_failures>>

\* the time of the call, and the later moments of the model
FromNow == {now} \cup {t \in SessionInstants : t > now}

\* C35 as stated: resolveAffiliate writes to no table, and a call with the
\* same order against the same sessions returns the same result, whenever it
\* is made and whatever orders are stored
C35_FunctionOfOrderAndSessions ==
    [][(Resolving /\ NoTies) =>
          /\ WroteNothing
          /\ \A t \in FromNow : \A webhooks \in Histories(client) :
                 resolveAffiliate(client, visitor_sessions, webhooks,
                                  resolved'.order, t) = {resolved'.result}]_vars

\* C35: resolveAffiliate writes to no table, and a call with the same order,
\* at the same time, against the same sessions and the same stored orders
\* returns the same result, as long as no two rows it has to order were
\* created at the same time
C35_ReadOnlyAndRepeatable ==
    [][Resolving =>
          /\ WroteNothing
          /\ NoTies =>
                 resolveAffiliate(client, visitor_sessions, order_webhooks,
                                  resolved'.order, now) = {resolved'.result}]_vars

\* an order was resolved by the more recent of two live sessions of its
\* visitor, which carry different affiliates
C35_Witness ==
    /\ resolved.done
    /\ NoTies
    /\ resolved.result.source = "visitor_id"
    /\ \E i, j \in RowIds(visitor_sessions) :
          /\ visitor_sessions[i].visitor_id = resolved.order.visitorId
          /\ visitor_sessions[j].visitor_id = resolved.order.visitorId
          /\ Live(client, visitor_sessions[i], resolved.at)
          /\ Live(client, visitor_sessions[j], resolved.at)
          /\ visitor_sessions[i].affiliate_id # visitor_sessions[j].affiliate_id
          /\ visitor_sessions[i].created_at.at < visitor_sessions[j].created_at.at
          /\ resolved.result.affiliateId = visitor_sessions[j].affiliate_id

(***************************************************************************)
(* processQueue calls that do not reach the end                            *)
(***************************************************************************)
\* a processQueue call ends between the update that marks the job processing
\* and the update that records the outcome: the process dies while or after
\* sendConversionDirect runs, or the database refuses the outcome update and
\* the exception leaves processQueue; delivered tells whether the request
\* had reached the API
Interrupt(p, delivered) ==
    /\ ppc[p] = "sending"
    /\ sent' = IF delivered THEN [sent EXCEPT ![ploc[p].job.id] = Append(@, "ok")]
               ELSE sent
    /\ ploc' = [ploc EXCEPT ![p] = NoLocals]
    /\ ppc' = [ppc EXCEPT ![p] = "idle"]
    /\ UNCHANGED <<now, conversion_queue, conversion_failures, alerts, uuids,
                   epc, eloc, enqReturns, rpc, rloc, retryReturns,
                   requeues, retryCalls, runs>>
    /\ UNCHANGED attributionVars

\* one order, the worker polling for ever (restarted after it died), the
\* inline trigger firing between two polls, and calls that may be interrupted
NextCrash ==
    \/ \E e \in Enqueuers : EnqueueCheck(e, TestOrder)
    \/ \E e \in Enqueuers : EnqueueInsert(e)
    \/ \E p \in Consumers : ConsumersIdle /\ ProcessSelect(p) /\ UNCHANGED runs
    \/ \E p \in Consumers : ProcessStep(p)
    \/ \E p \in Consumers, delivered \in BOOLEAN : Interrupt(p, delivered)
    \/ Tick(MaxTimeLive)

\* the worker keeps polling, every call goes on unless it is interrupted,
\* and time advances
SpecCrash == Init /\ [][NextCrash]_vars /\ Fairness

\* C36: a job that is processing is picked up again by a later processQueue
\* call when the call that marked it was interrupted, so it is eventually
\* completed or dead.
C36_ProcessingIsNotASink ==
    \A i \in 1 .. Cardinality(Enqueuers) :
        (i \in RowIds(conversion_queue) /\ conversion_queue[i].status = "processing")
            ~> ( /\ i \in RowIds(conversion_queue)
                 /\ conversion_queue[i].status \in {"completed", "dead"} )

(***************************************************************************)
(* Properties of the session's expiry                                      *)
(***************************************************************************)
\* the sessions the step wrote to: those inserted and those whose row changed
Written ==
    {i \in RowIds(visitor_sessions') :
        i \notin RowIds(visitor_sessions) \/ visitor_sessions'[i] # visitor_sessions[i]}

\* C37: after every write to a session (its creation, a repeated tracking
\* call, an identify call that updates it) the session expires a TTL after
\* the time of that write.
C37_ExpiryFollowsLastWrite ==
    [][\A i \in Written :
           visitor_sessions'[i].expires_at.at = now + SESSION_TTL]_vars

(***************************************************************************)
(* Properties of a job's row                                               *)
(***************************************************************************)
\* what the status of a row says about its other columns
RowConsistent(row) ==
    /\ row.status = "pending" =>
           /\ row.attempts = 0
           /\ row.last_error = Null
    /\ row.status = "failed" =>
           /\ row.attempts >= 1
           /\ row.attempts < MAX_ATTEMPTS
           /\ row.last_error # Null
           /\ row.next_retry_at # NoTime
    /\ row.status = "dead" =>
           /\ row.attempts >= 1
           /\ row.last_error # Null
    /\ row.status = "completed" =>
           /\ row.attempts >= 1
           /\ row.completed_at # NoTime

\* C38: in every reachable state, a pending job has no attempt and no error
\* recorded; a failed job has between 1 and maxAttempts - 1 attempts, an
\* error and a retry time; a dead job has at least one attempt and an error;
\* a completed job has at least one attempt and a completion time.
C38_StatusMatchesColumns ==
    \A i \in RowIds(conversion_queue) : RowConsistent(conversion_queue[i])

\* C38 witness: a job that died was requeued by the operator and is pending
\* again, beside a job that failed and waits for its retry.
C38_Witness ==
    \E i, j \in RowIds(conversion_queue) :
        /\ requeues[i] = 1
        /\ conversion_queue[i].status = "pending"
        /\ conversion_queue[j].status = "failed"
        /\ conversion_queue[j].attempts = 1

(***************************************************************************)
(* Properties of the backoff schedule                                      *)
(***************************************************************************)
\* the step in which a processQueue call records a failed delivery of row i
FailedAttempt(i) ==
    /\ \E p \in Consumers : Answered(p, i)
    /\ conversion_queue'[i].status \in {"failed", "dead"}

\* C39: with MAX_ATTEMPTS = 5 the k-th failed attempt of a job, for k in
\* 1..4, is followed by a delay of the k-th entry of BACKOFF_DELAYS, and the
\* fifth failure makes the job dead; the fifth entry (7200 s) is never
\* scheduled and the index never reaches the end of the table.
C39_FifthDelayNeverUsed ==
    [][ \A i \in RowIds(conversion_queue) :
          FailedAttempt(i) =>
              LET new == conversion_queue'[i]
                  k   == Len(sent'[i])
              IN  /\ new.attempts = k
                  /\ k \in 1 .. MAX_ATTEMPTS
                  /\ new.status = "failed" =>
                         /\ k \in 1 .. 4
                         /\ new.next_retry_at - now = BACKOFF_DELAYS[k]
                         /\ new.next_retry_at - now # BACKOFF_DELAYS[Len(BACKOFF_DELAYS)]
                         /\ k - 1 < Len(BACKOFF_DELAYS) - 1
                  /\ (k = MAX_ATTEMPTS) => new.status = "dead"
      ]_vars

\* C39 witness: a job failed for the fourth time and waits the fourth delay,
\* 1920 seconds.
C39_Witness ==
    \E i \in RowIds(conversion_queue) :
        /\ conversion_queue[i].status = "failed"
        /\ conversion_queue[i].attempts = 4
        /\ Len(sent[i]) = 4
        /\ \E p \in Consumers :
              /\ ploc[p].handled # <<>>
              /\ ploc[p].handled[Len(ploc[p].handled)].id = i
              /\ conversion_queue[i].next_retry_at = now + BACKOFF_DELAYS[4]

(***************************************************************************)
(* Properties of the permanent-failure alert                               *)
(***************************************************************************)
\* the step in which call p invokes sendConversionFailureAlert and it settles
Alerted(p) == ppc[p] = "alert" /\ ppc'[p] # "alert"

\* the failure record of the death call p is handling is in the table
Recorded(p) ==
    \E k \in DOMAIN conversion_failures :
        /\ conversion_failures[k].queue_id = ploc[p].job.id
        /\ conversion_failures[k].job_id = ploc[p].job.job_id
        /\ conversion_failures[k].error_message = ErrorMessage(ploc[p].err)
        /\ conversion_failures[k].created_at >= ploc[p].now

\* C40: the alert is invoked exactly once for each transition of a job into
\* dead, after the row was set to dead and the failure record written; it is
\* not invoked for a delivery that succeeded nor for a failure that leaves
\* the job failed.
C40_OneAlertPerDeath ==
    [][ /\ \A i \in RowIds(conversion_queue) :
              (conversion_queue[i].status # "dead" /\ conversion_queue'[i].status = "dead")
                  => \E p \in Consumers :
                        /\ Answered(p, i)
                        /\ ppc'[p] = "logFailure" /\ ploc'[p].job.id = i
        /\ \A p \in Consumers :
              /\ (ppc[p] # "logFailure" /\ ppc'[p] = "logFailure") =>
                    /\ Answered(p, ploc[p].job.id)
                    /\ conversion_queue[ploc[p].job.id].status # "dead"
                    /\ conversion_queue'[ploc[p].job.id].status = "dead"
              /\ ppc[p] = "logFailure" =>
                    /\ ENABLED ProcessLogFailure(p)
                    /\ ppc'[p] \in {"logFailure", "alert"}
                    /\ ploc'[p].job = ploc[p].job
              /\ (ppc[p] # "alert" /\ ppc'[p] = "alert") => ppc[p] = "logFailure"
              /\ ppc[p] = "alert" =>
                    /\ \A outcome \in AlertOutcomes : ENABLED ProcessAlert(p, outcome)
                    /\ LastHandled(p).id = ploc[p].job.id
                    /\ LastHandled(p).to = "dead"
                    /\ Recorded(p)
              /\ Alerted(p) =>
                    /\ ppc'[p] = "loop"
                    /\ ploc'[p].job = NoJob
              /\ \A i \in RowIds(conversion_queue) :
                    (Answered(p, i) /\ conversion_queue'[i].status \in {"completed", "failed"})
                        => ppc'[p] = "loop"
        /\ alerts' # alerts =>
              /\ \E p \in Consumers : Alerted(p)
              /\ Len(alerts') = Len(alerts) + 1
      ]_vars

====
